---- MODULE Spec2Model ----
(***************************************************************************)
(* embed_star: the embedding pipeline of src/src.                          *)
(*                                                                         *)
(* The specifications share one set of variables, among them:              *)
(*   SpecBreaker  the circuit-breaker manager driven through its API       *)
(*                (circuit_breaker.rs);                                    *)
(*   Spec         the library service: discovery, channel, batching        *)
(*                workers, cache, breaker and batched write-back           *)
(*                (service.rs, process_batch.rs, surreal_client.rs);       *)
(*   SpecMain     the binary of main.rs: two instances that take the       *)
(*                database-backed processing lock around each record       *)
(*                (main.rs, deduplication.rs).                             *)
(*                                                                         *)
(* Time is a bounded integer clock `now`; durations of the source are      *)
(* given in ticks of that clock.                                           *)
(***************************************************************************)
EXTENDS Integers, Sequences, FiniteSets, TLC

VARIABLES
    now,          \* the clock (Instant::now(), time::now())
    breakers,     \* CircuitBreakerManager.breakers : service -> CircuitBreaker
    db,           \* table repo : record id -> row
    wcount,       \* history: writes applied to a record, per source version
    chan,         \* the discovery channel (mpsc::channel<Repo>)
    scanner,      \* process_initial_batch: position, rows still to send
    poller,       \* setup_live_query task and its inner channel
    cache,        \* EmbeddingCache: entries and access_order
    workers,      \* process_batch_loop_worker, one per worker id
    locks,        \* table processing_lock
    instances,    \* main.rs: one process per instance id
    retry,        \* one call of with_retry (retry.rs)
    embed,        \* one call of Embedder::generate_embedding (embedder.rs)
    cacheOp,      \* the last call made on the EmbeddingCache and its result
    limiters,     \* RateLimiterManager.limiters : provider -> bucket
    shutdown,     \* the two broadcast channels, their receivers and tasks
    update        \* one call of SurrealClient::batch_update_embeddings

breakerVars == <<breakers>>
discoveryVars == <<scanner, poller>>
serviceVars == <<db, wcount, chan, scanner, poller, cache, workers>>
mainVars == <<locks, instances>>
supportVars == <<cacheOp, limiters, shutdown, update>>
callVars == <<retry, embed, supportVars>>
vars == <<now, breakers, db, wcount, chan, scanner, poller, cache, workers,
          locks, instances, retry, embed, cacheOp, limiters, shutdown, update>>

----------------------------------------------------------------------------
(* Bounds *)

MaxTime == 1          \* clock of the service and of the instances
MaxBreakerTime == 3   \* clock of SpecBreaker
MaxRequests == 11     \* requests recorded with one breaker in SpecBreaker

----------------------------------------------------------------------------
(* Circuit breaker (circuit_breaker.rs) *)

NoBreaker == [state |-> "none"]

\* Service names: the provider name configured at start-up and the model
\* name that the worker passes as `provider` (process_batch.rs:63).
ProviderName == "ollama"
ModelName == "nomic-embed-text"
Services == {ProviderName, ModelName}

\* failure_rate_threshold is kept as the fraction rate_num / rate_den.
DefaultBreakerConfig ==
    [failure_threshold |-> 5, timeout_duration |-> 2, success_threshold |-> 3,
     rate_num |-> 1, rate_den |-> 2, min_requests |-> 10]

OllamaBreakerConfig ==
    [failure_threshold |-> 3, timeout_duration |-> 1, success_threshold |-> 2,
     rate_num |-> 3, rate_den |-> 10, min_requests |-> 5]

NoTime == -1

CircuitBreakerNew(config, t) ==
    [state |-> "Closed",
     total_requests |-> 0, failed_requests |-> 0, successful_requests |-> 0,
     consecutive_failures |-> 0, last_failure_time |-> NoTime,
     config |-> config, last_state_change |-> t, half_open_successes |-> 0]

transition_to(b, new_state, t) ==
    IF b.state # new_state
    THEN [b EXCEPT !.state = new_state,
                   !.last_state_change = t,
                   !.half_open_successes =
                       IF new_state = "HalfOpen" THEN 0 ELSE @]
    ELSE b

\* should_allow_request that lets an Open breaker through at once
should_allow_request_ignores_timeout(b, t) ==
    IF b.state = "Open" THEN <<TRUE, transition_to(b, "HalfOpen", t)>>
    ELSE <<TRUE, b>>

\* should_allow_request as the pair <<allowed, breaker afterwards>>
should_allow_request(b, t) ==
    CASE b.state = "Closed" -> <<TRUE, b>>
      [] b.state = "Open" ->
            IF t - b.last_state_change >= b.config.timeout_duration
            THEN <<TRUE, transition_to(b, "HalfOpen", t)>>
            ELSE <<FALSE, b>>
      [] b.state = "HalfOpen" -> <<TRUE, b>>

\* record_success that closes the breaker from whatever state it is in
record_success_closes_any(b, t) ==
    transition_to([b EXCEPT !.total_requests = @ + 1,
                            !.successful_requests = @ + 1,
                            !.consecutive_failures = 0], "Closed", t)

\* record_success that closes a HalfOpen breaker on its first success
record_success_closes_at_once(b, t) ==
    LET b1 == [b EXCEPT !.total_requests = @ + 1,
                        !.successful_requests = @ + 1,
                        !.consecutive_failures = 0]
    IN  IF b1.state = "HalfOpen"
        THEN transition_to([b1 EXCEPT !.half_open_successes = @ + 1], "Closed", t)
        ELSE b1

record_success(b, t) ==
    LET b1 == [b EXCEPT !.total_requests = @ + 1,
                        !.successful_requests = @ + 1,
                        !.consecutive_failures = 0]
    IN  IF b1.state = "HalfOpen"
        THEN LET b2 == [b1 EXCEPT !.half_open_successes = @ + 1]
             IN  IF b2.half_open_successes >= b2.config.success_threshold
                 THEN transition_to(b2, "Closed", t)
                 ELSE b2
        ELSE b1

\* failed / total >= failure_rate_threshold, on integers
FailureRateReached(b) ==
    b.failed_requests * b.config.rate_den >= b.config.rate_num * b.total_requests

\* record_failure that opens a Closed breaker on any failure
record_failure_opens_on_any(b, t) ==
    LET b1 == [b EXCEPT !.total_requests = @ + 1,
                        !.failed_requests = @ + 1,
                        !.consecutive_failures = @ + 1,
                        !.last_failure_time = t]
    IN  IF b1.state = "Open" THEN b1 ELSE transition_to(b1, "Open", t)

record_failure(b, t) ==
    LET b1 == [b EXCEPT !.total_requests = @ + 1,
                        !.failed_requests = @ + 1,
                        !.consecutive_failures = @ + 1,
                        !.last_failure_time = t]
    IN  CASE b1.state = "Closed" ->
                IF b1.consecutive_failures >= b1.config.failure_threshold
                THEN transition_to(b1, "Open", t)
                ELSE IF b1.total_requests >= b1.config.min_requests
                        /\ FailureRateReached(b1)
                     THEN transition_to(b1, "Open", t)
                     ELSE b1
          [] b1.state = "HalfOpen" -> transition_to(b1, "Open", t)
          [] b1.state = "Open" -> b1

\* CircuitBreakerManager: the map after each call
ManagerEntry(bs, s, t) ==
    IF bs[s] = NoBreaker THEN CircuitBreakerNew(DefaultBreakerConfig, t) ELSE bs[s]

\* a manager that allows every request without asking the breaker
ManagerShouldAllow_always(bs, s, t) == <<TRUE, bs>>

ManagerShouldAllow(bs, s, t) ==
    LET r == should_allow_request(ManagerEntry(bs, s, t), t)
    IN  <<r[1], [bs EXCEPT ![s] = r[2]]>>

ManagerRecordSuccess(bs, s, t) ==
    IF bs[s] = NoBreaker THEN bs ELSE [bs EXCEPT ![s] = record_success(bs[s], t)]

ManagerRecordFailure(bs, s, t) ==
    IF bs[s] = NoBreaker THEN bs ELSE [bs EXCEPT ![s] = record_failure(bs[s], t)]

ManagerReset(bs, s, t) ==
    IF bs[s] = NoBreaker THEN bs
    ELSE [bs EXCEPT ![s] = [@ EXCEPT !.state = "Closed",
                                     !.consecutive_failures = 0,
                                     !.half_open_successes = 0,
                                     !.last_state_change = t]]

\* run_with_config, provider "ollama": configure_service("ollama", ...)
ConfiguredBreakers ==
    [s \in Services |->
        IF s = ProviderName THEN CircuitBreakerNew(OllamaBreakerConfig, 0)
        ELSE NoBreaker]

Requests(bs, s) == IF bs[s] = NoBreaker THEN 0 ELSE bs[s].total_requests

----------------------------------------------------------------------------
(* SpecBreaker: the manager driven through its public API.  One service is *)
(* exercised per behaviour: a call on s is taken while every other         *)
(* service's breaker is as start-up left it.                               *)

OthersUntouched(s) ==
    \A o \in Services \ {s} : breakers[o] = ConfiguredBreakers[o]

BreakerTick ==
    /\ now < MaxBreakerTime
    /\ now' = now + 1
    /\ UNCHANGED <<callVars, breakerVars, serviceVars, mainVars>>

BreakerShouldAllow(s) ==
    /\ OthersUntouched(s)
    /\ breakers' = ManagerShouldAllow(breakers, s, now)[2]
    /\ UNCHANGED <<callVars, mainVars, now, serviceVars>>

BreakerRecordSuccess(s) ==
    /\ OthersUntouched(s)
    /\ Requests(breakers, s) < MaxRequests
    /\ breakers' = ManagerRecordSuccess(breakers, s, now)
    /\ UNCHANGED <<callVars, mainVars, now, serviceVars>>

BreakerRecordFailure(s) ==
    /\ OthersUntouched(s)
    /\ Requests(breakers, s) < MaxRequests
    /\ breakers' = ManagerRecordFailure(breakers, s, now)
    /\ UNCHANGED <<callVars, mainVars, now, serviceVars>>

BreakerReset(s) ==
    /\ OthersUntouched(s)
    /\ breakers' = ManagerReset(breakers, s, now)
    /\ UNCHANGED <<callVars, mainVars, now, serviceVars>>

----------------------------------------------------------------------------
(* Records, vectors and the repo table (models.rs, surreal_client.rs) *)

Records == {"a/r1", "a/r2"}

\* source-field changes made by external writers, all records together
MaxUpdates == 1

NoVec == [dim |-> -1]

\* A Repo value as a query returns it: the id and the version of its source
\* fields (description, language, stars, owner) at the time of the query.
RepoSnapshot(r, row) == [id |-> r, full_name |-> r, ver |-> row.ver]

\* Repo::prepare_text_for_embedding: the template applied to the snapshot's
\* fields; two snapshots give the same text iff name and source version agree.
prepare_text_for_embedding(repo) == [name |-> repo.full_name, ver |-> repo.ver]

\* Repo::needs_embedding and the WHERE clause of get_repos_needing_embeddings
needs_embedding(row) ==
    \/ row.embedding = NoVec
    \/ IF row.embedding_generated_at = NoTime THEN TRUE
       ELSE row.updated_at > row.embedding_generated_at

\* What a provider may answer for a text: a vector described by its
\* dimension, its number of zero components and its L2 norm in hundredths.
ProviderOutputs(text) ==
    { [text |-> text, dim |-> 768, zeros |-> 0,   mag |-> 100],
      [text |-> text, dim |-> 0,   zeros |-> 0,   mag |-> 0],
      [text |-> text, dim |-> 768, zeros |-> 768, mag |-> 0] }

\* ValidationConfig::default (magnitudes in hundredths, max_zero_ratio 9/10)
DefaultValidationConfig ==
    [min_dimension |-> 100, max_dimension |-> 4096,
     zero_num |-> 9, zero_den |-> 10,
     min_magnitude |-> 1, max_magnitude |-> 10000]

\* validate that accepts every vector
validate_accept_all(cfg, v) == v.dim = v.dim

\* EmbeddingValidator::validate: TRUE iff Ok(())
validate(cfg, v) ==
    /\ ~ (v.dim < cfg.min_dimension)
    /\ ~ (v.dim > cfg.max_dimension)
    /\ ~ (v.zeros * cfg.zero_den > cfg.zero_num * v.dim)
    /\ ~ (v.mag < cfg.min_magnitude)
    /\ ~ (v.mag > cfg.max_magnitude)

\* an UPDATE that sets the embedding and leaves embedding_generated_at
UpdateRow_keeps_timestamp(row, v, t) ==
    [row EXCEPT !.embedding = v]

\* UPDATE $repo SET embedding = $embedding, embedding_generated_at = time::now()
UpdateRow(row, v, t) ==
    [row EXCEPT !.embedding = v, !.embedding_generated_at = t]

\* SELECT * FROM repo WHERE embedding IS NONE OR updated_at >
\* embedding_generated_at LIMIT n: the rows in table order (n exceeds the
\* number of records of the model)
RecordOrder == <<"a/r1", "a/r2">>

get_repos_needing_embeddings(d) ==
    LET ids == SelectSeq(RecordOrder, LAMBDA r : needs_embedding(d[r]))
    IN  [k \in 1..Len(ids) |-> RepoSnapshot(ids[k], d[ids[k]])]

\* Applies a sequence of EmbeddingUpdate to the table, in order
RECURSIVE ApplyUpdates(_, _, _)
ApplyUpdates(d, ups, t) ==
    IF ups = <<>> THEN d
    ELSE ApplyUpdates([d EXCEPT ![Head(ups).repo_id] =
                            UpdateRow(@, Head(ups).embedding, t)],
                      Tail(ups), t)

\* history: one more write of record r at its current source version
RECURSIVE CountUpdates(_, _, _)
CountUpdates(wc, d, ups) ==
    IF ups = <<>> THEN wc
    ELSE LET r == Head(ups).repo_id
         IN  CountUpdates([wc EXCEPT ![r][d[r].ver] = @ + 1], d, Tail(ups))

\* the subsequence of s at the positions in K
RECURSIVE SelectAt(_, _, _)
SelectAt(s, K, k) ==
    IF k > Len(s) THEN <<>>
    ELSE (IF k \in K THEN <<s[k]>> ELSE <<>>) \o SelectAt(s, K, k + 1)

----------------------------------------------------------------------------
(* Embedding cache (embedding_cache.rs) *)

CacheMaxSize == 2
CacheTtl == 2

NoEntry == [created_at |-> NoTime]

\* EmbeddingCache::cache_key: format!("{}:{}", repo_full_name, model)
cache_key(full_name, model) == <<full_name, model>>

\* names that are used as cache keys: the records and one more repository
CacheNames == Records \cup {"a/r3"}

CacheKeys == {cache_key(r, ModelName) : r \in CacheNames}

EmptyCache == [entries |-> [k \in CacheKeys |-> NoEntry], access_order |-> <<>>]

CacheLen(c) == Cardinality({k \in CacheKeys : c.entries[k] # NoEntry})

Retain(order, key) == SelectSeq(order, LAMBDA k : k # key)

\* a get that never looks at created_at
CacheGet_ignores_ttl(c, key, t) ==
    LET e == c.entries[key]
    IN  IF e = NoEntry THEN <<FALSE, NoVec, c>>
        ELSE <<TRUE, e.embedding,
               [entries |-> [c.entries EXCEPT ![key] =
                                [e EXCEPT !.last_accessed = t,
                                          !.access_count = @ + 1]],
                access_order |-> Append(Retain(c.access_order, key), key)]>>

\* a get that finds nothing
CacheGet_always_miss(c, key, t) == <<FALSE, NoVec, c>>

\* EmbeddingCache::get as <<hit, embedding, cache afterwards>>
CacheGet(c, key, t) ==
    LET e == c.entries[key]
    IN  IF e = NoEntry THEN <<FALSE, NoVec, c>>
        ELSE IF t - e.created_at > CacheTtl
             THEN <<FALSE, NoVec,
                    [entries |-> [c.entries EXCEPT ![key] = NoEntry],
                     access_order |-> Retain(c.access_order, key)]>>
             ELSE <<TRUE, e.embedding,
                    [entries |-> [c.entries EXCEPT ![key] =
                                     [e EXCEPT !.last_accessed = t,
                                               !.access_count = @ + 1]],
                     access_order |-> Append(Retain(c.access_order, key), key)]>>

\* the eviction loop of put, `while entries.len() >= self.max_size`: every
\* turn pops the front of access_order and removes that key's entry; with
\* nothing to pop the loop does not change anything and never ends
RECURSIVE EvictionLoop(_, _)
EvictionLoop(c, max_size) ==
    IF CacheLen(c) >= max_size
    THEN IF c.access_order = <<>>
         THEN [diverges |-> TRUE, cache |-> c]
         ELSE EvictionLoop(
                  [entries |-> [c.entries EXCEPT ![Head(c.access_order)] = NoEntry],
                   access_order |-> Tail(c.access_order)], max_size)
    ELSE [diverges |-> FALSE, cache |-> c]

\* the cache after the eviction loop of a cache of CacheMaxSize entries
CacheEvict(c) == EvictionLoop(c, CacheMaxSize).cache

\* a put that never evicts
CachePut_no_eviction(c, key, v, model, t) ==
    [entries |-> [c.entries EXCEPT ![key] =
                     [embedding |-> v, model |-> model, created_at |-> t,
                      last_accessed |-> t, access_count |-> 0]],
     access_order |-> Append(c.access_order, key)]

\* EmbeddingCache::put
CachePut(c, key, v, model, t) ==
    LET c1 == CacheEvict(c)
    IN  [entries |-> [c1.entries EXCEPT ![key] =
                         [embedding |-> v, model |-> model, created_at |-> t,
                          last_accessed |-> t, access_count |-> 0]],
         access_order |-> Append(c1.access_order, key)]

----------------------------------------------------------------------------
(* Discovery (service.rs process_initial_batch, process_live_query;        *)
(* surreal_client.rs setup_live_query)                                     *)

Workers == {"w1", "w2"}
BatchSize == 2
MaxScans == 1
MaxPolls == 1

\* mpsc::channel::<Repo>(batch_size * parallel_workers * 2)
ChannelCap == BatchSize * Cardinality(Workers) * 2
LiveChannelCap == 100
ClearInterval == 100
MaxProcessedIds == 10000

RECURSIVE SumVer(_, _)
SumVer(d, S) ==
    IF S = {} THEN 0
    ELSE LET r == CHOOSE x \in S : TRUE IN d[r].ver + SumVer(d, S \ {r})

Updates(d) == SumVer(d, Records)

Tick ==
    /\ now < MaxTime
    /\ now' = now + 1
    /\ UNCHANGED <<callVars, breakerVars, serviceVars, mainVars>>

\* an external writer changes the source fields of r
UpdateSource(r) ==
    /\ Updates(db) < MaxUpdates
    /\ db[r].embedding_generated_at < now
    /\ db' = [db EXCEPT ![r] = [@ EXCEPT !.ver = @ + 1, !.updated_at = now]]
    /\ UNCHANGED <<callVars, mainVars, now, breakers, wcount, chan, scanner, poller, cache, workers>>

\* process_initial_batch: one query; an empty result ends the scanner
ScanQuery ==
    /\ scanner.pc = "query"
    /\ scanner.scans < MaxScans
    /\ LET repos == get_repos_needing_embeddings(db)
       IN  scanner' = [pc |-> IF repos = <<>> THEN "done" ELSE "send",
                       buf |-> repos, scans |-> scanner.scans + 1]
    /\ UNCHANGED <<callVars, mainVars, now, breakers, db, wcount, chan, poller, cache, workers>>

\* process_initial_batch: tx.send(repo) for the next row, then the sleep
ScanSend ==
    /\ scanner.pc = "send"
    /\ Len(chan) < ChannelCap
    /\ chan' = Append(chan, Head(scanner.buf))
    /\ scanner' = [scanner EXCEPT !.buf = Tail(@),
                                  !.pc = IF Tail(scanner.buf) = <<>>
                                         THEN "query" ELSE "send"]
    /\ UNCHANGED <<callVars, mainVars, now, breakers, db, wcount, poller, cache, workers>>

\* rows of a poll that are not in processed_ids, in order
FreshRows(repos, seen) == SelectSeq(repos, LAMBDA x : x.id \notin seen)

\* setup_live_query: one tick of the polling task
PollQuery ==
    /\ poller.polls < MaxPolls
    /\ LET cc == poller.clear_counter + 1
           cleared == cc >= ClearInterval
                      \/ Cardinality(poller.processed_ids) > MaxProcessedIds
           seen == IF cleared THEN {} ELSE poller.processed_ids
           fresh == FreshRows(get_repos_needing_embeddings(db), seen)
       IN  /\ Len(poller.live) + Len(fresh) <= LiveChannelCap
           /\ poller' = [polls |-> poller.polls + 1,
                         clear_counter |-> IF cleared THEN 0 ELSE cc,
                         processed_ids |-> seen \cup {fresh[k].id : k \in 1..Len(fresh)},
                         live |-> poller.live \o fresh]
    /\ UNCHANGED <<callVars, mainVars, now, breakers, db, wcount, chan, scanner, cache, workers>>

\* process_live_query: rx.recv() then tx.send(repo)
LiveForward ==
    /\ poller.live # <<>>
    /\ Len(chan) < ChannelCap
    /\ chan' = Append(chan, Head(poller.live))
    /\ poller' = [poller EXCEPT !.live = Tail(@)]
    /\ UNCHANGED <<callVars, mainVars, now, breakers, db, wcount, scanner, cache, workers>>

----------------------------------------------------------------------------
(* Worker (service.rs process_batch_loop_worker, process_batch.rs)         *)

\* no request admitted by the breaker is under way
NoAdmission == [state |-> "none", since |-> NoTime]

\* permits counts the calls of wait_for_permit made for the batch; admitted
\* is the breaker's state and last_state_change when should_allow_request
\* let the request under way through
IdleWorker ==
    [pc |-> "idle", batch |-> <<>>, idx |-> 1, pending_updates |-> <<>>,
     outcome |-> <<>>, permits |-> 0, admitted |-> NoAdmission]

Min(a, b) == IF a < b THEN a ELSE b

Failures == {"unavailable", "error", "invalid"}

Successes == {"ok", "cached"}

\* a loop that leaves the batch at the first failed record
Advance_abort_on_failure(wk) ==
    [wk EXCEPT !.idx = @ + 1,
               !.pc = IF \/ wk.idx + 1 > Len(wk.batch)
                        \/ wk.outcome[Len(wk.outcome)] \in Failures
                      THEN "write" ELSE "record"]

\* after one record of the batch: the next one, or the batched write
Advance(wk) ==
    [wk EXCEPT !.idx = @ + 1,
               !.pc = IF wk.idx + 1 > Len(wk.batch) THEN "write" ELSE "record"]

\* a fill that reads the channel without taking the rows out of it
WorkerFill_keeps_rows(w) ==
    /\ workers[w].pc = "idle"
    /\ chan # <<>>
    /\ LET n == Min(BatchSize, Len(chan))
       IN  /\ workers' = [workers EXCEPT ![w] =
                 [IdleWorker EXCEPT !.pc = "record", !.batch = SubSeq(chan, 1, n)]]
           /\ chan' = Tail(chan)
    /\ UNCHANGED <<callVars, mainVars, now, breakers, db, wcount, scanner, poller, cache>>

\* interval.tick(): fill the batch with try_recv, then enter process_batch
WorkerFill(w) ==
    /\ workers[w].pc = "idle"
    /\ chan # <<>>
    /\ LET n == Min(BatchSize, Len(chan))
       IN  /\ workers' = [workers EXCEPT ![w] =
                 [IdleWorker EXCEPT !.pc = "record", !.batch = SubSeq(chan, 1, n)]]
           /\ chan' = SubSeq(chan, n + 1, Len(chan))
    /\ UNCHANGED <<callVars, mainVars, now, breakers, db, wcount, scanner, poller, cache>>

\* process_batch.rs:62-99: text, cache lookup, rate-limit permit, breaker
\* gate, up to the call of the embedder
WorkerStartRecord(w) ==
    LET wk == workers[w]
        repo == wk.batch[wk.idx]
        provider == ModelName
        key == cache_key(repo.full_name, provider)
        got == CacheGet(cache, key, now)
        gate == ManagerShouldAllow(breakers, provider, now)
    IN  /\ wk.pc = "record"
        /\ cache' = got[3]
        /\ IF got[1]
           THEN /\ workers' = [workers EXCEPT ![w] =
                      Advance([wk EXCEPT
                          !.pending_updates = Append(@,
                              [repo_id |-> repo.id, embedding |-> got[2],
                               idx |-> wk.idx]),
                          !.outcome = Append(@, "cached")])]
                /\ UNCHANGED breakers
           ELSE /\ breakers' = gate[2]
                /\ workers' = [workers EXCEPT ![w] =
                      IF gate[1]
                      THEN [wk EXCEPT
                               !.pc = "embedding", !.permits = @ + 1,
                               !.admitted =
                                   [state |-> gate[2][provider].state,
                                    since |-> gate[2][provider].last_state_change]]
                      ELSE Advance([wk EXCEPT !.outcome = Append(@, "unavailable"),
                                              !.permits = @ + 1])]
        /\ UNCHANGED <<callVars, mainVars, now, db, wcount, chan, scanner, poller>>

\* process_batch.rs:88-141: the embedder's answer, the breaker's record,
\* validation, cache.put and pending_updates.push
WorkerFinishRecord(w) ==
    LET wk == workers[w]
        repo == wk.batch[wk.idx]
        provider == ModelName
        text == prepare_text_for_embedding(repo)
        key == cache_key(repo.full_name, provider)
    IN  /\ wk.pc = "embedding"
        /\ \/ /\ breakers' = ManagerRecordFailure(breakers, provider, now)
              /\ workers' = [workers EXCEPT ![w] =
                    Advance([wk EXCEPT !.outcome = Append(@, "error"),
                                       !.admitted = NoAdmission])]
              /\ UNCHANGED cache
           \/ \E v \in ProviderOutputs(text) :
                /\ breakers' = ManagerRecordSuccess(breakers, provider, now)
                /\ IF validate(DefaultValidationConfig, v)
                   THEN /\ cache' = CachePut(cache, key, v, ModelName, now)
                        /\ workers' = [workers EXCEPT ![w] =
                              Advance([wk EXCEPT
                                  !.pending_updates = Append(@,
                                      [repo_id |-> repo.id, embedding |-> v,
                                       idx |-> wk.idx]),
                                  !.outcome = Append(@, "ok"),
                                  !.admitted = NoAdmission])]
                   ELSE /\ workers' = [workers EXCEPT ![w] =
                              Advance([wk EXCEPT !.outcome = Append(@, "invalid"),
                                                 !.admitted = NoAdmission])]
                        /\ UNCHANGED cache
        /\ UNCHANGED <<callVars, mainVars, now, db, wcount, chan, scanner, poller>>

\* process_batch.rs:143-170 and batch_update_embeddings: the transaction
\* applies every update; when it fails the per-row fallback applies the
\* updates whose own UPDATE succeeds (positions `applied`); then batch.clear()
WorkerWrite(w) ==
    LET wk == workers[w]
    IN  /\ wk.pc = "write"
        /\ \E applied \in SUBSET (1..Len(wk.pending_updates)) :
              LET ups == SelectAt(wk.pending_updates, applied, 1)
              IN  /\ db' = ApplyUpdates(db, ups, now)
                  /\ wcount' = CountUpdates(wcount, db, ups)
        /\ workers' = [workers EXCEPT ![w] = IdleWorker]
        /\ UNCHANGED <<callVars, mainVars, now, breakers, chan, scanner, poller, cache>>

ServiceInit ==
    /\ db = [r \in Records |->
                [ver |-> 0, updated_at |-> 0, embedding |-> NoVec,
                 embedding_generated_at |-> NoTime]]
    /\ wcount = [r \in Records |-> [v \in 0..MaxUpdates |-> 0]]
    /\ chan = <<>>
    /\ scanner = [pc |-> "query", buf |-> <<>>, scans |-> 0]
    /\ poller = [polls |-> 0, clear_counter |-> 0, processed_ids |-> {},
                 live |-> <<>>]
    /\ cache = EmptyCache
    /\ workers = [w \in Workers |-> IdleWorker]

----------------------------------------------------------------------------
(* Processing locks (deduplication.rs; the database functions              *)
(* fn::acquire_processing_lock, fn::release_processing_lock and            *)
(* fn::cleanup_expired_locks are not part of the sources and follow        *)
(* section 4.8 of the specification)                                       *)

Instances == {"embed_star_1", "embed_star_2"}

\* lock_duration_seconds, in ticks
LockDuration == 1

None == "none"

\* Option::unwrap_or
unwrap_or(opt, default) == IF opt = <<>> THEN default ELSE opt[1]

Unexpired(l, t) == l.expires_at > t /\ l.status = "processing"

\* fn::acquire_processing_lock as <<Option<bool>, table afterwards>>, the
\* option being a sequence of at most one value: inserts a row iff no
\* un-expired row exists for the record
AcquireProcessingLock(lk, r, inst, duration, t) ==
    IF \E l \in lk : l.repo_id = r /\ Unexpired(l, t)
    THEN <<<<FALSE>>, lk>>
    ELSE <<<<TRUE>>,
           {l \in lk : l.repo_id # r} \cup
           {[repo_id |-> r, instance_id |-> inst, locked_at |-> t,
             expires_at |-> t + duration, status |-> "processing"]}>>

\* fn::release_processing_lock: deletes the row only if owned by inst
ReleaseProcessingLock(lk, r, inst, status) ==
    {l \in lk : ~ (l.repo_id = r /\ l.instance_id = inst)}

\* fn::cleanup_expired_locks: deletes all rows with expires_at <= now
CleanupExpiredLocks(lk, t) == {l \in lk : l.expires_at > t}

\* try_acquire_lock that reports every call as acquired
try_acquire_lock_always_true(lk, r, inst, t) ==
    <<TRUE, AcquireProcessingLock(lk, r, inst, LockDuration, t)[2]>>

\* DeduplicationManager::try_acquire_lock: result.unwrap_or(false)
try_acquire_lock(lk, r, inst, t) ==
    LET res == AcquireProcessingLock(lk, r, inst, LockDuration, t)
    IN  <<unwrap_or(res[1], FALSE), res[2]>>

\* DeduplicationManager::release_lock
release_lock(lk, r, inst, status) == ReleaseProcessingLock(lk, r, inst, status)

\* a wait_for_permit that fails
wait_for_permit_err(provider) == "Err"

\* RateLimiterManager::wait_for_permit: Ok(()) with or without a limiter
wait_for_permit(provider) == "Ok"

----------------------------------------------------------------------------
(* The binary of main.rs: process_initial_batch, process_batch_loop,       *)
(* process_batch, cleanup_locks_loop                                       *)

MaxMainScans == 1

\* mpsc::channel::<Repo>(config.batch_size * 2)
MainChannelCap == BatchSize * 2

\* an instance whose breaker for the model name has counted four
\* consecutive failures in batches served before
WornBreakers ==
    [ConfiguredBreakers EXCEPT ![ModelName] =
        [CircuitBreakerNew(DefaultBreakerConfig, 0) EXCEPT
            !.total_requests = 4, !.failed_requests = 4,
            !.consecutive_failures = 4, !.last_failure_time = 0]]

IdleInstance(bs) ==
    [pc |-> "idle", chan |-> <<>>, batch |-> <<>>, idx |-> 1, scans |-> 0,
     guard |-> FALSE, embedding |-> NoVec, status |-> None, breakers |-> bs]

\* the end of one iteration of `for repo in batch`
NextRepo(in) ==
    IF in.idx + 1 > Len(in.batch)
    THEN [in EXCEPT !.pc = "idle", !.batch = <<>>, !.idx = 1]
    ELSE [in EXCEPT !.pc = "acquire", !.idx = @ + 1]

\* process_initial_batch: one query and the sends of its rows
MainScan(i) ==
    LET in == instances[i]
        repos == get_repos_needing_embeddings(db)
    IN  /\ in.scans < MaxMainScans
        /\ repos # <<>>
        /\ Len(in.chan) + Len(repos) <= MainChannelCap
        /\ instances' = [instances EXCEPT ![i] =
              [in EXCEPT !.scans = @ + 1, !.chan = @ \o repos]]
        /\ UNCHANGED <<callVars, now, breakers, serviceVars, locks>>

\* process_batch_loop: rx.recv(), batch.push, process_batch when full
MainRecv(i) ==
    LET in == instances[i]
        b == Append(in.batch, Head(in.chan))
    IN  /\ in.pc = "idle"
        /\ in.chan # <<>>
        /\ instances' = [instances EXCEPT ![i] =
              [in EXCEPT !.chan = Tail(@), !.batch = b,
                         !.pc = IF Len(b) >= BatchSize THEN "acquire" ELSE "idle",
                         !.idx = 1]]
        /\ UNCHANGED <<callVars, now, breakers, serviceVars, locks>>

\* process_batch_loop: interval.tick() with a non-empty batch
MainInterval(i) ==
    LET in == instances[i]
    IN  /\ in.pc = "idle"
        /\ in.batch # <<>>
        /\ instances' = [instances EXCEPT ![i] =
              [in EXCEPT !.pc = "acquire", !.idx = 1]]
        /\ UNCHANGED <<callVars, now, breakers, serviceVars, locks>>

\* main.rs:431-473: try_acquire_lock, LockGuard::new, the rate-limit
\* permit and the breaker gate, up to the call of the embedder
MainAcquire(i) ==
    LET in == instances[i]
        repo == in.batch[in.idx]
        provider == ModelName
        got == try_acquire_lock(locks, repo.id, i, now)
        gate == ManagerShouldAllow(in.breakers, provider, now)
    IN  /\ in.pc = "acquire"
        /\ \/ \* Err(e): the lock could not be checked
              /\ instances' = [instances EXCEPT ![i] = NextRepo(in)]
              /\ UNCHANGED locks
           \/ /\ locks' = got[2]
              /\ instances' = [instances EXCEPT ![i] =
                    IF ~ got[1]
                    THEN NextRepo(in)
                    ELSE IF wait_for_permit(provider) # "Ok"
                    THEN NextRepo(in)
                    ELSE IF gate[1]
                    THEN [in EXCEPT !.guard = TRUE, !.pc = "embedding",
                                    !.breakers = gate[2]]
                    ELSE [in EXCEPT !.guard = TRUE, !.pc = "release",
                                    !.status = "failed",
                                    !.breakers = gate[2]]]
        /\ UNCHANGED <<callVars, now, breakers, serviceVars>>

\* main.rs:462-494: the embedder's answer, the breaker's record, validation
MainEmbedDone(i) ==
    LET in == instances[i]
        repo == in.batch[in.idx]
        provider == ModelName
        text == prepare_text_for_embedding(repo)
    IN  /\ in.pc = "embedding"
        /\ \/ instances' = [instances EXCEPT ![i] =
                 [in EXCEPT !.pc = "release", !.status = "failed",
                            !.breakers = ManagerRecordFailure(@, provider, now)]]
           \/ \E v \in ProviderOutputs(text) :
                instances' = [instances EXCEPT ![i] =
                    IF validate(DefaultValidationConfig, v)
                    THEN [in EXCEPT !.pc = "update", !.embedding = v,
                                    !.breakers = ManagerRecordSuccess(@, provider, now)]
                    ELSE [in EXCEPT !.pc = "release", !.status = "failed",
                                    !.breakers = ManagerRecordSuccess(@, provider, now)]]
        /\ UNCHANGED <<callVars, now, breakers, serviceVars, locks>>

\* main.rs:496-526: update_repo_embedding under with_retry
MainUpdate(i) ==
    LET in == instances[i]
        repo == in.batch[in.idx]
    IN  /\ in.pc = "update"
        /\ \/ /\ db' = [db EXCEPT ![repo.id] = UpdateRow(@, in.embedding, now)]
              /\ wcount' = [wcount EXCEPT ![repo.id][db[repo.id].ver] = @ + 1]
              /\ instances' = [instances EXCEPT ![i] =
                    [in EXCEPT !.pc = "release", !.status = "completed"]]
           \/ /\ instances' = [instances EXCEPT ![i] =
                    [in EXCEPT !.pc = "release", !.status = "failed"]]
              /\ UNCHANGED <<db, wcount>>
        /\ UNCHANGED <<callVars, now, breakers, chan, scanner, poller, cache, workers, locks>>

\* LockGuard::release(status): release_lock, whose error is only logged
MainRelease(i) ==
    LET in == instances[i]
        repo == in.batch[in.idx]
        done == NextRepo([in EXCEPT !.guard = FALSE, !.status = None,
                                    !.embedding = NoVec])
    IN  /\ in.pc = "release"
        /\ \/ locks' = release_lock(locks, repo.id, i, in.status)
           \/ UNCHANGED locks
        /\ instances' = [instances EXCEPT ![i] = done]
        /\ UNCHANGED <<callVars, now, breakers, serviceVars>>

\* cleanup_locks_loop: cleanup_expired_locks on its interval
MainCleanup(i) ==
    /\ locks' = CleanupExpiredLocks(locks, now)
    /\ locks' # locks
    /\ UNCHANGED <<callVars, now, breakers, serviceVars, instances>>

MainInit ==
    /\ locks = {}
    /\ instances = [i \in Instances |->
                       IF i = "embed_star_1"
                       THEN IdleInstance(ConfiguredBreakers)
                       ELSE IdleInstance(WornBreakers)]

----------------------------------------------------------------------------
(* The retry envelope (retry.rs, error.rs) *)

\* RetryConfig.max_retries of the calls examined (RetryConfig::default: 3)
MaxRetriesConfig == 3

NoCall == [pc |-> "none"]

\* the variants of EmbedError
ErrorKinds ==
    {"Database", "EmbeddingProvider", "Configuration", "Http",
     "RateLimitExceeded", "InvalidDimension", "ServiceUnavailable", "Internal"}

\* is_retryable that retries every error
is_retryable_any(e) == e \in ErrorKinds

\* EmbedError::is_retryable
is_retryable(e) ==
    e \in {"Database", "Http", "RateLimitExceeded", "ServiceUnavailable"}

\* The operations handed to with_retry and what one invocation may answer:
\* any operation; the closure of the lifecycle around generate_embedding,
\* which maps every error to EmbedError::EmbeddingProvider; a database update.
Operations == {"operation", "generate_embedding", "update_embedding"}

OperationAnswers(op) ==
    CASE op = "operation" -> {"Ok"} \cup ErrorKinds
      [] op = "generate_embedding" -> {"Ok", "EmbeddingProvider"}
      [] op = "update_embedding" -> {"Ok", "Database"}

with_retry_start(op, max_retries) ==
    [pc |-> "call", op |-> op, max_retries |-> max_retries, retry_count |-> 0,
     invocations |-> 0, sleeps |-> 0, last_error |-> None, result |-> None,
     answers |-> <<>>]

\* a with_retry that compares retry_count > max_retries
with_retry_off_by_one(r, answer) ==
    LET r1 == [r EXCEPT !.invocations = @ + 1, !.answers = Append(@, answer)]
    IN  IF answer = "Ok"
        THEN [r1 EXCEPT !.pc = "done", !.result = "Ok"]
        ELSE IF ~ is_retryable(answer) \/ r1.retry_count > r1.max_retries
             THEN [r1 EXCEPT !.pc = "done", !.result = answer]
             ELSE [r1 EXCEPT !.retry_count = @ + 1, !.last_error = answer,
                             !.pc = "sleep"]

\* with_retry, one turn of its loop on the answer of operation().await
\* (answers keeps what the operation returned, in order);
\* next_backoff() is Some(duration) since max_elapsed_time is None
with_retry(r, answer) ==
    LET r1 == [r EXCEPT !.invocations = @ + 1, !.answers = Append(@, answer)]
    IN  IF answer = "Ok"
        THEN [r1 EXCEPT !.pc = "done", !.result = "Ok"]
        ELSE IF ~ is_retryable(answer) \/ r1.retry_count >= r1.max_retries
             THEN [r1 EXCEPT !.pc = "done", !.result = answer]
             ELSE [r1 EXCEPT !.retry_count = @ + 1, !.last_error = answer,
                             !.pc = "sleep"]

\* operation().await and the match on its result
RetryInvoke ==
    /\ retry.pc = "call"
    /\ \E answer \in OperationAnswers(retry.op) :
          retry' = with_retry(retry, answer)
    /\ UNCHANGED <<now, breakers, serviceVars, mainVars, embed, supportVars>>

\* tokio::time::sleep(duration).await, then the next turn of the loop
RetrySleep ==
    /\ retry.pc = "sleep"
    /\ retry' = [retry EXCEPT !.pc = "call", !.sleeps = @ + 1]
    /\ UNCHANGED <<now, breakers, serviceVars, mainVars, embed, supportVars>>

----------------------------------------------------------------------------
(* Embedder::generate_embedding (embedder.rs, embedding_validation.rs) *)

\* Config.retry_attempts of the calls examined (default 3)
MaxRetryAttempts == 3

E5Model == "intfloat/multilingual-e5-large-instruct"

Models == {ModelName, E5Model}

\* together_e5_validator(): dimension 1024, magnitude 0.5 .. 2.0 (in
\* hundredths), max_zero_ratio 0.5
E5Validator ==
    [expected_dimension |-> 1024, min_magnitude |-> 50, max_magnitude |-> 200,
     zero_num |-> 1, zero_den |-> 2]

\* validator: None
NoValidator == [expected_dimension |-> -1]

\* Embedder::new: the validator installed for the model
ValidatorOf(model) == IF model = E5Model THEN E5Validator ELSE NoValidator

\* What the provider may answer with: vectors described by dimension, number
\* of zero components, L2 norm in hundredths, all components finite, variance
\* at least 1e-6
ProviderVectors ==
    { [dim |-> 1024, zeros |-> 0,   mag |-> 100, finite |-> TRUE,  varied |-> TRUE],
      [dim |-> 0,    zeros |-> 0,   mag |-> 0,   finite |-> TRUE,  varied |-> TRUE],
      [dim |-> 768,  zeros |-> 0,   mag |-> 100, finite |-> TRUE,  varied |-> TRUE],
      [dim |-> 1024, zeros |-> 0,   mag |-> 100, finite |-> FALSE, varied |-> TRUE],
      [dim |-> 1024, zeros |-> 0,   mag |-> 10,  finite |-> TRUE,  varied |-> TRUE],
      [dim |-> 1024, zeros |-> 0,   mag |-> 300, finite |-> TRUE,  varied |-> TRUE],
      [dim |-> 1024, zeros |-> 600, mag |-> 100, finite |-> TRUE,  varied |-> TRUE],
      [dim |-> 1024, zeros |-> 0,   mag |-> 100, finite |-> TRUE,  varied |-> FALSE] }

\* Result<Vec<f32>> of the provider
ProviderErr == [ok |-> FALSE, v |-> NoVec]

ProviderOk(v) == [ok |-> TRUE, v |-> v]

ProviderAnswers == {ProviderErr} \cup {ProviderOk(v) : v \in ProviderVectors}

\* embedding_validation.rs EmbeddingValidator::validate: TRUE iff Ok(())
embedding_validate(val, v) ==
    /\ v.dim # 0
    /\ v.dim = val.expected_dimension
    /\ v.finite
    /\ ~ (v.mag < val.min_magnitude)
    /\ ~ (v.mag > val.max_magnitude)
    /\ ~ (v.zeros * val.zero_den > val.zero_num * v.dim)
    /\ v.varied

\* a check that treats every embedder as one without validator
embedder_check_skipped(val, v) == "skipped"

\* embedder.rs:274-290: `if let Some(validator)` and the match on validate
embedder_check(val, v) ==
    IF val = NoValidator THEN "skipped"
    ELSE IF embedding_validate(val, v) THEN "pass" ELSE "fail"

\* a loop that never goes round again
attempts_remain_never(attempts, retry_attempts) == attempts < 0

\* `attempts < self.retry_attempts`
attempts_remain(attempts, retry_attempts) == attempts < retry_attempts

generate_embedding_start(model, retry_attempts) ==
    [pc |-> "call", model |-> model, retry_attempts |-> retry_attempts,
     attempts |-> 0, provider_calls |-> 0, provider_errors |-> 0,
     validation_pass |-> 0, validation_fail |-> 0,
     result |-> None, embedding |-> NoVec, answers |-> <<>>]

\* one turn of the loop of generate_embedding on the provider's answer
\* (answers keeps what the provider returned, in order)
generate_embedding(e, answer) ==
    LET e1 == [e EXCEPT !.attempts = @ + 1, !.provider_calls = @ + 1,
                        !.answers = Append(@, answer)]
        val == ValidatorOf(e.model)
    IN  IF ~ answer.ok
        THEN LET e2 == [e1 EXCEPT !.provider_errors = @ + 1]
             IN  IF ~ attempts_remain(e2.attempts, e2.retry_attempts)
                 THEN [e2 EXCEPT !.pc = "done", !.result = "Err"]
                 ELSE [e2 EXCEPT !.pc = "sleep"]
        ELSE CASE embedder_check(val, answer.v) = "skipped" ->
                    [e1 EXCEPT !.pc = "done", !.result = "Ok",
                               !.embedding = answer.v]
               [] embedder_check(val, answer.v) = "pass" ->
                    [e1 EXCEPT !.validation_pass = @ + 1, !.pc = "done",
                               !.result = "Ok", !.embedding = answer.v]
               [] embedder_check(val, answer.v) = "fail" ->
                    LET e2 == [e1 EXCEPT !.validation_fail = @ + 1]
                    IN  IF attempts_remain(e2.attempts, e2.retry_attempts)
                        THEN [e2 EXCEPT !.pc = "sleep"]
                        ELSE [e2 EXCEPT !.pc = "done", !.result = "Err"]

\* self.provider.generate_embedding(&truncated_text).await and its match
EmbedAttempt ==
    /\ embed.pc = "call"
    /\ \E answer \in ProviderAnswers :
          embed' = generate_embedding(embed, answer)
    /\ UNCHANGED <<now, breakers, serviceVars, mainVars, retry, supportVars>>

\* tokio::time::sleep(retry_delay_ms), then the next turn of the loop
EmbedSleep ==
    /\ embed.pc = "sleep"
    /\ embed' = [embed EXCEPT !.pc = "call"]
    /\ UNCHANGED <<now, breakers, serviceVars, mainVars, retry, supportVars>>

\* nothing of the cache, limiter, shutdown or batch-update calls under way
IdleSupport ==
    /\ cacheOp = NoCall
    /\ limiters = NoCall
    /\ shutdown = NoCall
    /\ update = NoCall

IdleCalls ==
    /\ retry = NoCall
    /\ embed = NoCall
    /\ IdleSupport

----------------------------------------------------------------------------
(* The embedding cache driven through its API (embedding_cache.rs): get,   *)
(* put, evict_expired and clear, each under both write locks, so each is   *)
(* one step whichever worker or task makes it                              *)

\* the clock of the cache specification; every call reads a later Instant
MaxCacheTime == 6

\* the vector put for a name
CachedVector(name) ==
    [text |-> [name |-> name, ver |-> 0], dim |-> 768, zeros |-> 0, mag |-> 100]

\* EmbeddingCache::evict_expired
CacheEvictExpired(c, t) ==
    LET expired == {k \in CacheKeys :
                       c.entries[k] # NoEntry /\ t - c.entries[k].created_at > CacheTtl}
    IN  [entries |-> [k \in CacheKeys |->
                         IF k \in expired THEN NoEntry ELSE c.entries[k]],
         access_order |-> SelectSeq(c.access_order, LAMBDA k : k \notin expired)]

\* EmbeddingCache::clear
CacheClear(c) == EmptyCache

CacheOpGet(name) ==
    /\ now < MaxCacheTime
    /\ LET key == cache_key(name, ModelName)
           got == CacheGet(cache, key, now)
       IN  /\ cache' = got[3]
           /\ cacheOp' = [pc |-> "get", key |-> key, hit |-> got[1],
                          embedding |-> got[2],
                          expired |-> cache.entries[key] # NoEntry /\ ~ got[1]]
    /\ now' = now + 1
    /\ UNCHANGED <<breakers, db, wcount, chan, scanner, poller, workers,
                   mainVars, retry, embed, limiters, shutdown, update>>

CacheOpPut(name) ==
    /\ now < MaxCacheTime
    /\ LET key == cache_key(name, ModelName)
       IN  /\ cache' = CachePut(cache, key, CachedVector(name), ModelName, now)
           /\ cacheOp' = [pc |-> "put", key |-> key, hit |-> FALSE,
                          embedding |-> CachedVector(name), expired |-> FALSE]
    /\ now' = now + 1
    /\ UNCHANGED <<breakers, db, wcount, chan, scanner, poller, workers,
                   mainVars, retry, embed, limiters, shutdown, update>>

\* cache_cleanup_task: interval.tick() => cache.evict_expired()
CacheOpEvictExpired ==
    /\ now < MaxCacheTime
    /\ cache' = CacheEvictExpired(cache, now)
    /\ cacheOp' = [pc |-> "evict_expired", key |-> <<>>, hit |-> FALSE,
                   embedding |-> NoVec, expired |-> FALSE]
    /\ now' = now + 1
    /\ UNCHANGED <<breakers, db, wcount, chan, scanner, poller, workers,
                   mainVars, retry, embed, limiters, shutdown, update>>

CacheOpClear ==
    /\ now < MaxCacheTime
    /\ cache' = CacheClear(cache)
    /\ cacheOp' = [pc |-> "clear", key |-> <<>>, hit |-> FALSE,
                   embedding |-> NoVec, expired |-> FALSE]
    /\ now' = now + 1
    /\ UNCHANGED <<breakers, db, wcount, chan, scanner, poller, workers,
                   mainVars, retry, embed, limiters, shutdown, update>>

\* time passes between two calls
CacheWait ==
    /\ now < MaxCacheTime
    /\ now' = now + 1
    /\ UNCHANGED <<breakers, serviceVars, mainVars, callVars>>

----------------------------------------------------------------------------
(* Shutdown (shutdown.rs; service.rs run_with_config, process_initial_batch, *)
(* process_live_query, process_batch_loop_worker)                          *)

\* the tasks of the pipeline that run_with_config spawns and registers
ScannerTask == "initial_processor"
ForwarderTask == "live_query_processor"
Tasks == Workers \cup {ScannerTask, ForwarderTask}

\* the receivers: one per task (shutdown_receiver.subscribe()) and the one
\* run_with_config keeps for wait_for_shutdown
MainTask == "main"
Receivers == Tasks \cup {MainTask}

\* the two broadcast channels: the one of setup_signal_handlers() and the
\* one of the ShutdownController::new() handed to GracefulShutdown
SignalChannel == "signal"
GracefulChannel == "graceful"
Channels == {SignalChannel, GracefulChannel}

Signals == {"SIGINT", "SIGTERM"}

\* service.rs:119-248: every receiver comes from shutdown_receiver, the
\* receiver of setup_signal_handlers(); the receiver created with the
\* controller of GracefulShutdown is dropped at once (`_`)
ShutdownNew ==
    [signal |-> "none",
     sent |-> [c \in Channels |-> 0],
     closed |-> [c \in Channels |-> FALSE],
     rx |-> [t \in Receivers |-> [channel |-> SignalChannel, queued |-> 0,
                                  received |-> 0]],
     task |-> [t \in Tasks |-> "running"],
     forwarder |-> "select",
     main |-> "wait"]

\* ShutdownController::shutdown: tx.send(()) queues the value at every
\* receiver of that channel; the result of send is ignored
ShutdownControllerSend(sd, c) ==
    [sd EXCEPT !.sent[c] = @ + 1,
               !.rx = [t \in Receivers |->
                          IF sd.rx[t].channel = c
                          THEN [sd.rx[t] EXCEPT !.queued = 1]
                          ELSE sd.rx[t]]]

\* a recv() that completes on a value only
RecvReady_value_only(sd, t) == sd.rx[t].queued > 0

\* shutdown_rx.recv() is ready: a value is queued, or the channel is closed
\* (`_ = shutdown_rx.recv()` matches Ok and Err alike)
RecvReady(sd, t) ==
    \/ sd.rx[t].queued > 0
    \/ sd.closed[sd.rx[t].channel]

\* the receiver after recv() returned
Recv(sd, t) ==
    IF sd.rx[t].queued > 0
    THEN [sd EXCEPT !.rx[t].queued = 0, !.rx[t].received = @ + 1]
    ELSE sd

Running(t) == shutdown.task[t] = "running"

\* setup_signal_handlers: the spawned task gets SIGINT or SIGTERM, calls
\* controller.shutdown() and ends, which drops the only sender
SdSignal(sig) ==
    /\ shutdown.signal = "none"
    /\ shutdown' = [ShutdownControllerSend(shutdown, SignalChannel) EXCEPT
                       !.signal = sig, !.closed[SignalChannel] = TRUE]
    /\ UNCHANGED <<now, breakers, serviceVars, mainVars, retry, embed,
                   cacheOp, limiters, update>>

\* run_with_config: wait_for_shutdown() returns, then
\* GracefulShutdown::shutdown calls self.controller.shutdown()
SdGraceful ==
    /\ shutdown.main = "wait"
    /\ RecvReady(shutdown, MainTask)
    /\ shutdown' = [ShutdownControllerSend(Recv(shutdown, MainTask), GracefulChannel)
                       EXCEPT !.main = "join"]
    /\ UNCHANGED <<now, breakers, serviceVars, mainVars, retry, embed,
                   cacheOp, limiters, update>>

\* GracefulShutdown::shutdown: every handle was awaited within the timeout
SdJoined ==
    /\ shutdown.main = "join"
    /\ \A t \in Tasks : ~ Running(t)
    /\ shutdown' = [shutdown EXCEPT !.main = "done"]
    /\ UNCHANGED <<now, breakers, serviceVars, mainVars, retry, embed,
                   cacheOp, limiters, update>>

\* GracefulShutdown::shutdown: the timeout ran out with a task still running
SdTimeout ==
    /\ shutdown.main = "join"
    /\ \E t \in Tasks : Running(t)
    /\ shutdown' = [shutdown EXCEPT !.main = "timeout"]
    /\ UNCHANGED <<now, breakers, serviceVars, mainVars, retry, embed,
                   cacheOp, limiters, update>>

\* process_batch_loop_worker, select!: the shutdown branch (the batch is
\* empty whenever the worker is at the select!)
SdWorkerShutdown(w) ==
    /\ Running(w)
    /\ workers[w].pc = "idle"
    /\ RecvReady(shutdown, w)
    /\ shutdown' = [Recv(shutdown, w) EXCEPT !.task[w] = "exited"]
    /\ UNCHANGED <<now, breakers, serviceVars, mainVars, retry, embed,
                   cacheOp, limiters, update>>

\* process_batch_loop_worker, select!: the interval.tick() branch
SdWorkerFill(w) ==
    /\ Running(w)
    /\ WorkerFill(w)

\* process_initial_batch: the shutdown branch of the outer select! (around
\* the query) or of the inner one (around tx.send)
SdScanShutdown ==
    /\ Running(ScannerTask)
    /\ scanner.pc \in {"query", "send"}
    /\ RecvReady(shutdown, ScannerTask)
    /\ shutdown' = [Recv(shutdown, ScannerTask) EXCEPT !.task[ScannerTask] = "exited"]
    /\ UNCHANGED <<now, breakers, serviceVars, mainVars, retry, embed,
                   cacheOp, limiters, update>>

\* process_initial_batch: the query returned no rows, break
SdScanFinished ==
    /\ Running(ScannerTask)
    /\ scanner.pc = "done"
    /\ shutdown' = [shutdown EXCEPT !.task[ScannerTask] = "exited"]
    /\ UNCHANGED <<now, breakers, serviceVars, mainVars, retry, embed,
                   cacheOp, limiters, update>>

SdScanQuery == Running(ScannerTask) /\ ScanQuery

SdScanSend == Running(ScannerTask) /\ ScanSend

\* process_live_query, select!: the shutdown branch
SdLiveShutdown ==
    /\ Running(ForwarderTask)
    /\ shutdown.forwarder = "select"
    /\ RecvReady(shutdown, ForwarderTask)
    /\ shutdown' = [Recv(shutdown, ForwarderTask) EXCEPT
                       !.task[ForwarderTask] = "exited"]
    /\ UNCHANGED <<now, breakers, serviceVars, mainVars, retry, embed,
                   cacheOp, limiters, update>>

\* process_live_query, select!: the rx.recv() branch got Some(repo)
SdLiveRecv ==
    /\ Running(ForwarderTask)
    /\ shutdown.forwarder = "select"
    /\ poller.live # <<>>
    /\ shutdown' = [shutdown EXCEPT !.forwarder = "send"]
    /\ UNCHANGED <<now, breakers, serviceVars, mainVars, retry, embed,
                   cacheOp, limiters, update>>

\* process_live_query: tx.send(repo).await inside the branch
SdLiveSend ==
    /\ Running(ForwarderTask)
    /\ shutdown.forwarder = "send"
    /\ Len(chan) < ChannelCap
    /\ chan' = Append(chan, Head(poller.live))
    /\ poller' = [poller EXCEPT !.live = Tail(@)]
    /\ shutdown' = [shutdown EXCEPT !.forwarder = "select"]
    /\ UNCHANGED <<now, breakers, db, wcount, scanner, cache, workers,
                   mainVars, retry, embed, cacheOp, limiters, update>>

\* a backlog: a/r1 was embedded and cached but its write-back failed, so
\* the scanner has gone on sending it: the discovery channel is full of
\* rows of a/r1, the scanner and the polling task each hold one more
BacklogRow ==
    [ver |-> 0, updated_at |-> 0, embedding |-> NoVec,
     embedding_generated_at |-> NoTime]

EmbeddedRow ==
    [ver |-> 0, updated_at |-> 0,
     embedding |-> CachedVector("a/r2"), embedding_generated_at |-> 0]

BacklogInit ==
    LET snap == RepoSnapshot("a/r1", BacklogRow)
    IN  /\ db = [r \in Records |-> IF r = "a/r1" THEN BacklogRow ELSE EmbeddedRow]
        /\ wcount = [r \in Records |-> [v \in 0..MaxUpdates |-> 0]]
        /\ chan = [k \in 1..ChannelCap |-> snap]
        /\ scanner = [pc |-> "send", buf |-> <<snap>>, scans |-> 0]
        /\ poller = [polls |-> MaxPolls, clear_counter |-> 1,
                     processed_ids |-> {"a/r1"}, live |-> <<snap>>]
        /\ cache = CachePut(EmptyCache, cache_key("a/r1", ModelName),
                             CachedVector("a/r1"), ModelName, 0)
        /\ workers = [w \in Workers |-> IdleWorker]

----------------------------------------------------------------------------
(* SurrealClient::batch_update_embeddings driven through its API           *)
(* (surreal_client.rs): one call at a time, one step per database request  *)

\* the longest list of updates handed to one call
MaxUpdateLen == 3

\* the vector of the EmbeddingUpdate for record r
UpdateVector(r) ==
    [text |-> [name |-> r, ver |-> 0], dim |-> 768, zeros |-> 0, mag |-> 100]

\* the lists of EmbeddingUpdate of at most MaxUpdateLen rows
UpdateLists ==
    UNION {[1..n -> {[repo_id |-> r, embedding |-> UpdateVector(r)] :
                        r \in Records}] : n \in 0..MaxUpdateLen}

\* BatchUpdateResult::default()
BatchUpdateResultDefault == [total |-> 0, successful |-> 0, failed |-> 0]

\* the Ok arm of batch_update_embeddings
TransactionResult(total, successful) ==
    [total |-> total, successful |-> successful, failed |-> total - successful]

\* a fallback that reports the rows that went through only
FallbackResult_drops_failed(successful, failed) ==
    [total |-> successful, successful |-> successful, failed |-> 0]

\* the result of fallback_individual_updates
FallbackResult(successful, failed) ==
    [total |-> successful + failed, successful |-> successful,
     failed |-> failed]

NoResult == [total |-> -1]

\* the number of elements of s equal to x
Count(s, x) == Cardinality({k \in 1..Len(s) : s[k] = x})

\* batch_update_embeddings(updates) is called; an empty list returns
\* BatchUpdateResult::default() before any connection is taken
UpdateCall(ups) ==
    /\ update.pc \in {"new", "returned"}
    /\ update' = IF ups = <<>>
                 THEN [pc |-> "returned", updates |-> ups, txn |-> "none",
                       rows |-> <<>>, queries |-> 0,
                       successful |-> 0, failed |-> 0,
                       result |-> BatchUpdateResultDefault]
                 ELSE [pc |-> "transaction", updates |-> ups, txn |-> "none",
                       rows |-> <<>>, queries |-> 0,
                       successful |-> 0, failed |-> 0, result |-> NoResult]
    /\ UNCHANGED <<now, breakers, serviceVars, mainVars, retry, embed,
                   cacheOp, limiters, shutdown>>

\* batch_update_with_transaction: Ok(updates.len()) when the request goes
\* through, and then every UPDATE of the transaction is applied; Err (no
\* connection from the pool, or the request fails) leads to the fallback
UpdateTransaction(ok) ==
    /\ update.pc = "transaction"
    /\ IF ok
       THEN /\ db' = ApplyUpdates(db, update.updates, now)
            /\ update' = [update EXCEPT
                  !.pc = "returned", !.txn = "ok", !.queries = @ + 1,
                  !.result = TransactionResult(Len(update.updates),
                                               Len(update.updates))]
       ELSE /\ db' = db
            /\ update' = [update EXCEPT !.pc = "fallback", !.txn = "err",
                                        !.queries = @ + 1]
    /\ UNCHANGED <<now, breakers, wcount, chan, scanner, poller, cache,
                   workers, mainVars, retry, embed, cacheOp, limiters,
                   shutdown>>

\* fallback_individual_updates, one turn of its loop: update_repo_embedding
\* of the next row, counted by its own outcome; after the last row the
\* result is returned
UpdateFallbackRow(ok) ==
    /\ update.pc = "fallback"
    /\ LET k          == Len(update.rows) + 1
           up         == update.updates[k]
           successful == IF ok THEN update.successful + 1 ELSE update.successful
           failed     == IF ok THEN update.failed ELSE update.failed + 1
           next       == [update EXCEPT
                             !.rows = Append(@, IF ok THEN "ok" ELSE "err"),
                             !.successful = successful, !.failed = failed,
                             !.queries = @ + 1]
       IN  /\ db' = IF ok
                    THEN [db EXCEPT ![up.repo_id] =
                              UpdateRow(@, up.embedding, now)]
                    ELSE db
           /\ update' = IF k = Len(update.updates)
                        THEN [next EXCEPT
                                 !.pc = "returned",
                                 !.result = FallbackResult(successful, failed)]
                        ELSE next
    /\ UNCHANGED <<now, breakers, wcount, chan, scanner, poller, cache,
                   workers, mainVars, retry, embed, cacheOp, limiters,
                   shutdown>>

----------------------------------------------------------------------------

(* RateLimiterManager driven through its API (rate_limiter.rs)             *)

LimiterProviders == {"openai", "together"}

\* the largest requests_per_minute configured
MaxRpm == 2

NoBucket == [rpm |-> 0]

NeverConfigured == -1

\* Quota::per_minute(rpm): a bucket of rpm cells, full when created, that
\* gets one cell back per replenishment period
Bucket(rpm) == [rpm |-> rpm, cells |-> rpm]

\* RateLimiterManager::new
RateLimiterManagerNew ==
    [pc |-> "ready",
     buckets |-> [p \in LimiterProviders |-> NoBucket],
     configured |-> [p \in LimiterProviders |-> NeverConfigured],
     call |-> [op |-> "new", provider |-> "", answer |-> "Ok",
               waited |-> FALSE]]

\* configure_provider: requests_per_minute == 0 returns before the map is
\* touched; otherwise a new limiter is inserted under the provider's name
configure_provider(buckets, p, rpm) ==
    IF rpm = 0 THEN buckets
    ELSE [buckets EXCEPT ![p] = Bucket(rpm)]

\* limiter.check(): a cell is taken if there is one
BucketCheck(b) ==
    IF b.cells > 0 THEN <<"Ok", [b EXCEPT !.cells = @ - 1]>>
    ELSE <<"RateLimitExceeded", b>>

\* check_rate_limit as <<answer, buckets afterwards>>
check_rate_limit(buckets, p) ==
    IF buckets[p] # NoBucket
    THEN LET r == BucketCheck(buckets[p])
         IN  <<r[1], [buckets EXCEPT ![p] = r[2]]>>
    ELSE <<"Ok", buckets>>

LimConfigure(p, rpm) ==
    /\ limiters.pc = "ready"
    /\ limiters' = [limiters EXCEPT
          !.buckets = configure_provider(@, p, rpm),
          !.configured[p] = rpm,
          !.call = [op |-> "configure", provider |-> p, answer |-> "Ok",
                    waited |-> FALSE]]
    /\ UNCHANGED <<now, breakers, serviceVars, mainVars, retry, embed,
                   cacheOp, shutdown, update>>

LimCheck(p) ==
    /\ limiters.pc = "ready"
    /\ LET r == check_rate_limit(limiters.buckets, p)
       IN  limiters' = [limiters EXCEPT
              !.buckets = r[2],
              !.call = [op |-> "check", provider |-> p, answer |-> r[1],
                        waited |-> FALSE]]
    /\ UNCHANGED <<now, breakers, serviceVars, mainVars, retry, embed,
                   cacheOp, shutdown, update>>

\* wait_for_permit: Ok(()) at once without a limiter; with one,
\* until_ready() takes a cell, at once if there is one and after waiting for
\* the next replenishment otherwise
LimWaitForPermit(p) ==
    /\ limiters.pc = "ready"
    /\ LET b == limiters.buckets[p]
       IN  limiters' =
              IF b = NoBucket
              THEN [limiters EXCEPT
                       !.call = [op |-> "wait", provider |-> p,
                                 answer |-> "Ok", waited |-> FALSE]]
              ELSE IF b.cells > 0
              THEN [limiters EXCEPT
                       !.buckets[p].cells = @ - 1,
                       !.call = [op |-> "wait", provider |-> p,
                                 answer |-> "Ok", waited |-> FALSE]]
              ELSE [limiters EXCEPT
                       !.pc = "until_ready",
                       !.call = [op |-> "wait", provider |-> p,
                                 answer |-> "pending", waited |-> TRUE]]
    /\ UNCHANGED <<now, breakers, serviceVars, mainVars, retry, embed,
                   cacheOp, shutdown, update>>

\* a replenishment period of provider p's bucket passes
LimReplenish(p) ==
    /\ limiters.buckets[p] # NoBucket
    /\ limiters.buckets[p].cells < limiters.buckets[p].rpm
    /\ limiters' = [limiters EXCEPT !.buckets[p].cells = @ + 1]
    /\ UNCHANGED <<now, breakers, serviceVars, mainVars, retry, embed,
                   cacheOp, shutdown, update>>

\* until_ready() completes: the awaited cell is there and is taken
LimReady ==
    /\ limiters.pc = "until_ready"
    /\ LET p == limiters.call.provider
       IN  /\ limiters.buckets[p].cells > 0
           /\ limiters' = [limiters EXCEPT
                 !.pc = "ready",
                 !.buckets[p].cells = @ - 1,
                 !.call.answer = "Ok"]
    /\ UNCHANGED <<now, breakers, serviceVars, mainVars, retry, embed,
                   cacheOp, shutdown, update>>

----------------------------------------------------------------------------

(* The change poller running for ever (surreal_client.rs setup_live_query, *)
(* get_repos_needing_embeddings; service.rs process_live_query), with the  *)
(* workers seen from the channel: a record taken from it either gets its   *)
(* embedding written or does not.  The limit of the query and the clearing *)
(* interval are scaled to the two records of the model.                    *)

\* the LIMIT of the poller's query (50 in setup_live_query)
PollLimit == 1

\* CLEAR_INTERVAL of setup_live_query (100), in polls
PollClearInterval == 2

\* the capacity of the poller's channel (100) and of the discovery channel
PollChannelCap == 3

\* SELECT .. LIMIT $limit: the first `limit` rows that need an embedding
get_repos_needing_embeddings_limit(d, limit) ==
    LET rows == get_repos_needing_embeddings(d)
    IN  SubSeq(rows, 1, Min(limit, Len(rows)))

\* setup_live_query: one turn of the polling loop; tx.send waits for room
PollCycle ==
    /\ LET cc == poller.clear_counter + 1
           cleared == cc >= PollClearInterval
                      \/ Cardinality(poller.processed_ids) > MaxProcessedIds
           seen == IF cleared THEN {} ELSE poller.processed_ids
           fresh == FreshRows(get_repos_needing_embeddings_limit(db, PollLimit),
                              seen)
       IN  /\ Len(poller.live) + Len(fresh) <= PollChannelCap
           /\ poller' = [poller EXCEPT
                 !.clear_counter = IF cleared THEN 0 ELSE cc,
                 !.processed_ids = seen \cup {fresh[k].id : k \in 1..Len(fresh)},
                 !.live = poller.live \o fresh]
    /\ UNCHANGED <<callVars, mainVars, now, breakers, db, wcount, chan,
                   scanner, cache, workers>>

\* process_live_query: rx.recv() then tx.send(repo), which waits for room
PollForward ==
    /\ poller.live # <<>>
    /\ Len(chan) < PollChannelCap
    /\ chan' = Append(chan, Head(poller.live))
    /\ poller' = [poller EXCEPT !.live = Tail(@)]
    /\ UNCHANGED <<callVars, mainVars, now, breakers, db, wcount, scanner,
                   cache, workers>>

\* a worker takes the next record of the channel; its lifecycle ends with
\* the embedding written back (ok) or with the row as it was
PollConsume(ok) ==
    /\ chan # <<>>
    /\ chan' = Tail(chan)
    /\ db' = IF ok
             THEN [db EXCEPT ![Head(chan).id] =
                       UpdateRow(@, UpdateVector(Head(chan).id), now)]
             ELSE db
    /\ UNCHANGED <<callVars, mainVars, now, breakers, wcount, scanner, poller,
                   cache, workers>>

----------------------------------------------------------------------------

(* Embedder::truncate_text (embedder.rs).  A text is a sequence of chars;  *)
(* str::len counts the bytes of its UTF-8 encoding, chars() its chars.     *)

\* a one-byte and a two-byte char
Chars == {"a", "é"}

\* char::len_utf8
len_utf8(c) == IF c = "é" THEN 2 ELSE 1

\* the longest text, in chars, and the largest token_limit examined
MaxTextLen == 5
MaxTokenLimit == 7

Texts == UNION {[1..n -> Chars] : n \in 0..MaxTextLen}

\* str::len: the number of bytes
RECURSIVE StrLen(_)
StrLen(s) == IF s = <<>> THEN 0 ELSE len_utf8(Head(s)) + StrLen(Tail(s))

\* usize arithmetic is modulo UsizeModulus (2^64 on the targets; the model
\* keeps 2^16, far above every length it meets)
UsizeModulus == 65536

\* a - b on usize: with overflow checks an underflow panics; without them
\* it wraps
usize_sub(a, b, overflow_checks) ==
    IF a >= b THEN [panic |-> FALSE, value |-> a - b]
    ELSE IF overflow_checks THEN [panic |-> TRUE, value |-> 0]
    ELSE [panic |-> FALSE, value |-> (a - b) % UsizeModulus]

\* text.chars().take(n).collect()
take(s, n) == SubSeq(s, 1, Min(n, Len(s)))

Ellipsis == <<".", ".", ".">>

\* Embedder::truncate_text
truncate_text(text, token_limit, overflow_checks) ==
    IF StrLen(text) <= token_limit
    THEN [panic |-> FALSE, text |-> text]
    ELSE LET n == usize_sub(token_limit, 3, overflow_checks)
         IN  IF n.panic THEN [panic |-> TRUE, text |-> <<>>]
             ELSE [panic |-> FALSE, text |-> take(text, n.value) \o Ellipsis]

\* generate_embedding calls truncate_text on the text it is given
TruncateCall(text) ==
    /\ embed.pc \in {"new", "truncated"}
    /\ embed' = [embed EXCEPT
          !.pc = "truncated", !.text = text,
          !.result = truncate_text(text, embed.token_limit,
                                   embed.overflow_checks)]
    /\ UNCHANGED <<now, breakers, serviceVars, mainVars, retry, supportVars>>

----------------------------------------------------------------------------

(* The recent-seen set of setup_live_query with the constants of the code  *)
(* (surreal_client.rs:105-140).  The ids are interchangeable, so the set   *)
(* is kept as its size together with the membership of one tracked id;     *)
(* `sent` counts the sends of the tracked id since the set was last        *)
(* cleared.                                                                *)

\* get_repos_needing_embeddings(50)
PollerQueryLimit == 50

\* the numbers of returned rows, other than the tracked id, that are not in
\* the set
FreshCounts == {0, 1, PollerQueryLimit - 1, PollerQueryLimit}

\* `if clear_counter >= CLEAR_INTERVAL || processed_ids.len() > MAX_PROCESSED_IDS`
ClearDue(cc, size) == cc >= ClearInterval \/ size > MaxProcessedIds

\* a loop that sends every returned row
IsFresh_every_row(in_set) == TRUE

\* `if !processed_ids.contains(&repo.id)`
IsFresh(in_set) == ~ in_set

\* one turn of the polling loop: `fresh` other rows are new to the set, and
\* the tracked id is among the returned rows or not
SeenPoll(fresh, returned) ==
    /\ fresh + (IF returned THEN 1 ELSE 0) <= PollerQueryLimit
    /\ LET cc      == poller.clear_counter + 1
           cleared == ClearDue(cc, poller.size)
           before  == IF cleared
                      THEN [poller EXCEPT !.clear_counter = 0, !.size = 0,
                                          !.tracked = FALSE, !.sent = 0]
                      ELSE [poller EXCEPT !.clear_counter = cc]
           send    == returned /\ IsFresh(before.tracked)
       IN  poller' = [before EXCEPT
                         !.size = @ + fresh + (IF send THEN 1 ELSE 0),
                         !.tracked = @ \/ send,
                         !.sent = @ + (IF send THEN 1 ELSE 0),
                         !.last_sent = send,
                         !.last_seen = returned /\ before.tracked]
    /\ UNCHANGED <<callVars, mainVars, now, breakers, db, wcount, chan,
                   scanner, cache, workers>>

----------------------------------------------------------------------------

(* EmbeddingCache::new(max_size, ttl) for every max_size up to             *)
(* CacheMaxSize, zero included, driven through put, get, evict_expired     *)
(* and clear (embedding_cache.rs).  A put whose eviction loop never ends   *)
(* keeps both write locks: no later call on the cache gets through.        *)

\* EmbeddingCache::put on a cache of max_size entries
PutSized(c, max_size, key, v, model, t) ==
    LET r == EvictionLoop(c, max_size)
    IN  IF r.diverges THEN r
        ELSE [diverges |-> FALSE,
              cache |-> [entries |-> [r.cache.entries EXCEPT ![key] =
                                         [embedding |-> v, model |-> model,
                                          created_at |-> t, last_accessed |-> t,
                                          access_count |-> 0]],
                         access_order |-> Append(r.cache.access_order, key)]]

SizedPut(name) ==
    /\ now < MaxCacheTime
    /\ cacheOp.pc # "put_loop"
    /\ LET key == cache_key(name, ModelName)
           r   == PutSized(cache, cacheOp.max_size, key, CachedVector(name),
                           ModelName, now)
       IN  /\ cache' = r.cache
           /\ cacheOp' = [cacheOp EXCEPT
                 !.pc = IF r.diverges THEN "put_loop" ELSE "put",
                 !.key = key,
                 !.at_capacity = CacheLen(cache) >= cacheOp.max_size]
    /\ now' = now + 1
    /\ UNCHANGED <<breakers, db, wcount, chan, scanner, poller, workers,
                   mainVars, retry, embed, limiters, shutdown, update>>

SizedGet(name) ==
    /\ now < MaxCacheTime
    /\ cacheOp.pc # "put_loop"
    /\ LET key == cache_key(name, ModelName)
       IN  /\ cache' = CacheGet(cache, key, now)[3]
           /\ cacheOp' = [cacheOp EXCEPT !.pc = "get", !.key = key,
                                         !.at_capacity = FALSE]
    /\ now' = now + 1
    /\ UNCHANGED <<breakers, db, wcount, chan, scanner, poller, workers,
                   mainVars, retry, embed, limiters, shutdown, update>>

SizedEvictExpired ==
    /\ now < MaxCacheTime
    /\ cacheOp.pc # "put_loop"
    /\ cache' = CacheEvictExpired(cache, now)
    /\ cacheOp' = [cacheOp EXCEPT !.pc = "evict_expired", !.at_capacity = FALSE]
    /\ now' = now + 1
    /\ UNCHANGED <<breakers, db, wcount, chan, scanner, poller, workers,
                   mainVars, retry, embed, limiters, shutdown, update>>

SizedClear ==
    /\ now < MaxCacheTime
    /\ cacheOp.pc # "put_loop"
    /\ cache' = CacheClear(cache)
    /\ cacheOp' = [cacheOp EXCEPT !.pc = "clear", !.at_capacity = FALSE]
    /\ now' = now + 1
    /\ UNCHANGED <<breakers, db, wcount, chan, scanner, poller, workers,
                   mainVars, retry, embed, limiters, shutdown, update>>

----------------------------------------------------------------------------

(* Start-up racing the signal (service.rs:118-251, shutdown.rs): the       *)
(* handler task of setup_signal_handlers runs from the moment the function *)
(* returns, while run_with_config is still subscribing and spawning its    *)
(* tasks one after the other.                                              *)

\* the order in which run_with_config subscribes and spawns
SpawnOrder == <<"w1", "w2", ScannerTask, ForwarderTask>>

\* before any task is spawned
ShutdownStarting ==
    [ShutdownNew EXCEPT !.task = [t \in Tasks |-> "unspawned"],
                        !.main = "spawn"]

\* the next task to spawn, counted from the tasks already spawned
Spawned(sd) == Cardinality({t \in Tasks : sd.task[t] # "unspawned"})

\* shutdown_receiver.subscribe() and tokio::spawn: rx.resubscribe() gives a
\* receiver that holds none of the values sent before
SubSpawn ==
    /\ shutdown.main = "spawn"
    /\ Spawned(shutdown) < Len(SpawnOrder)
    /\ LET t == SpawnOrder[Spawned(shutdown) + 1]
       IN  shutdown' = [shutdown EXCEPT
              !.rx[t] = [channel |-> SignalChannel, queued |-> 0,
                         received |-> 0],
              !.task[t] = "running"]
    /\ UNCHANGED <<now, breakers, serviceVars, mainVars, retry, embed,
                   cacheOp, limiters, update>>

\* run_with_config reaches shutdown_receiver.wait_for_shutdown()
SubAllSpawned ==
    /\ shutdown.main = "spawn"
    /\ Spawned(shutdown) = Len(SpawnOrder)
    /\ shutdown' = [shutdown EXCEPT !.main = "wait"]
    /\ UNCHANGED <<now, breakers, serviceVars, mainVars, retry, embed,
                   cacheOp, limiters, update>>

\* the handler task gets SIGINT or SIGTERM and calls controller.shutdown():
\* the value is queued at the receivers that exist
SubSignal(sig) ==
    /\ shutdown.signal = "none"
    /\ shutdown' = [ShutdownControllerSend(shutdown, SignalChannel) EXCEPT
                       !.signal = sig]
    /\ UNCHANGED <<now, breakers, serviceVars, mainVars, retry, embed,
                   cacheOp, limiters, update>>

\* the handler task ends: its controller, the only sender, is dropped
SubHandlerEnds ==
    /\ shutdown.signal # "none"
    /\ ~ shutdown.closed[SignalChannel]
    /\ shutdown' = [shutdown EXCEPT !.closed[SignalChannel] = TRUE]
    /\ UNCHANGED <<now, breakers, serviceVars, mainVars, retry, embed,
                   cacheOp, limiters, update>>

----------------------------------------------------------------------------

(* process_initial_batch with every outcome of its query (service.rs:260-  *)
(* 309): Ok with rows, Ok without rows, Err; the shutdown branches of both *)
(* select! and the closed channel                                          *)

\* queries issued by the scanner in one run of the model
MaxScannerQueries == 3

\* a match on the query's result that leaves the loop on Err
ScanOutcome_error_ends(result, repos) ==
    IF result = "Err" \/ repos = <<>> THEN "done" ELSE "send"

\* match result: Ok(repos) with repos.is_empty() breaks, Ok(repos) sends
\* the rows, Err(e) logs and sleeps five seconds
ScanOutcome(result, repos) ==
    IF result = "Err" THEN "error_sleep"
    ELSE IF repos = <<>> THEN "done" ELSE "send"

ScannerStart ==
    [pc |-> "query", buf |-> <<>>, scans |-> 0, last |-> "none",
     errors |-> 0, returned |-> 0, sent |-> 0,
     signal |-> FALSE, rx_closed |-> FALSE]

\* client.get_repos_needing_embeddings(100) completes
ScQuery(result) ==
    /\ scanner.pc = "query"
    /\ scanner.scans < MaxScannerQueries
    /\ LET repos == IF result = "Ok" THEN get_repos_needing_embeddings(db)
                    ELSE <<>>
       IN  scanner' = [scanner EXCEPT
              !.pc = ScanOutcome(result, repos),
              !.buf = repos,
              !.scans = @ + 1,
              !.last = result,
              !.errors = IF result = "Err" THEN @ + 1 ELSE @,
              !.returned = @ + Len(repos)]
    /\ UNCHANGED <<callVars, mainVars, now, breakers, db, wcount, chan,
                   poller, cache, workers>>

\* sleep(Duration::from_secs(5)) of the Err arm, then the loop again
ScErrorSleep ==
    /\ scanner.pc = "error_sleep"
    /\ scanner' = [scanner EXCEPT !.pc = "query"]
    /\ UNCHANGED <<callVars, mainVars, now, breakers, db, wcount, chan,
                   poller, cache, workers>>

\* tx.send(repo) of the next row; after the last row the sleep of 100 ms
\* and the loop again
ScSend ==
    /\ scanner.pc = "send"
    /\ ~ scanner.rx_closed
    /\ Len(chan) < ChannelCap
    /\ chan' = Append(chan, Head(scanner.buf))
    /\ scanner' = [scanner EXCEPT
          !.buf = Tail(@),
          !.sent = @ + 1,
          !.pc = IF Tail(scanner.buf) = <<>> THEN "query" ELSE "send"]
    /\ UNCHANGED <<callVars, mainVars, now, breakers, db, wcount, poller,
                   cache, workers>>

\* tx.send(repo) returns Err: the receiver is gone, return Ok(())
ScSendClosed ==
    /\ scanner.pc = "send"
    /\ scanner.rx_closed
    /\ scanner' = [scanner EXCEPT !.pc = "closed"]
    /\ UNCHANGED <<callVars, mainVars, now, breakers, db, wcount, chan,
                   poller, cache, workers>>

\* the shutdown branch of the select! around the query or around tx.send
ScShutdown ==
    /\ scanner.pc \in {"query", "send"}
    /\ scanner.signal
    /\ scanner' = [scanner EXCEPT !.pc = "shutdown"]
    /\ UNCHANGED <<callVars, mainVars, now, breakers, db, wcount, chan,
                   poller, cache, workers>>

\* the shutdown signal is published
ScSignal ==
    /\ ~ scanner.signal
    /\ scanner' = [scanner EXCEPT !.signal = TRUE]
    /\ UNCHANGED <<callVars, mainVars, now, breakers, db, wcount, chan,
                   poller, cache, workers>>

\* the workers have left on the signal: the receiver they share is dropped
ScReceiverDropped ==
    /\ scanner.signal
    /\ ~ scanner.rx_closed
    /\ scanner' = [scanner EXCEPT !.rx_closed = TRUE]
    /\ UNCHANGED <<callVars, mainVars, now, breakers, db, wcount, chan,
                   poller, cache, workers>>

\* a worker takes the row at the head of the channel and its batch ends
\* with the row written (ok) or not
ScConsume(ok) ==
    /\ ~ scanner.rx_closed
    /\ chan # <<>>
    /\ chan' = Tail(chan)
    /\ LET id == Head(chan).id
           ups == IF ok THEN <<[repo_id |-> id, embedding |-> UpdateVector(id)]>>
                  ELSE <<>>
       IN  /\ db' = ApplyUpdates(db, ups, now)
           /\ wcount' = CountUpdates(wcount, db, ups)
    /\ UNCHANGED <<callVars, mainVars, now, breakers, scanner, poller,
                   cache, workers>>

----------------------------------------------------------------------------

(* Claims *)

\* the record an instance is working on
CurrentRepo(i) == instances[i].batch[instances[i].idx].id

\* the vectors ValidationConfig::default lets through
Acceptable(v) ==
    /\ v # NoVec
    /\ v.dim >= DefaultValidationConfig.min_dimension
    /\ v.dim <= DefaultValidationConfig.max_dimension
    /\ v.zeros * DefaultValidationConfig.zero_den
          <= DefaultValidationConfig.zero_num * v.dim
    /\ v.mag >= DefaultValidationConfig.min_magnitude
    /\ v.mag <= DefaultValidationConfig.max_magnitude

\* C1: for every record and every change of its source fields (every
\* version, the first included) at most one embedding write-back is issued,
\* over all workers.
C1_AtMostOneWritePerChange ==
    \A r \in Records : \A v \in 0..MaxUpdates : wcount[r][v] <= 1

\* C2: for every record at most one instance holds an un-expired processing
\* lock; a try_acquire by an instance while another instance's un-expired row
\* exists is refused (no guard, no new row), and an instance obtains its guard
\* only in a step that created its own row for the record.
C2_AtMostOneHolder ==
    /\ [](\A r \in Records :
            Cardinality({l \in locks : l.repo_id = r /\ Unexpired(l, now)}) <= 1)
    /\ [][\A i \in Instances :
            instances[i].pc = "acquire" /\ instances'[i] # instances[i] =>
              LET r == CurrentRepo(i)
                  mine == [repo_id |-> r, instance_id |-> i, locked_at |-> now,
                           expires_at |-> now + LockDuration,
                           status |-> "processing"]
              IN  /\ (\E l \in locks : l.repo_id = r /\ l.instance_id # i
                                       /\ Unexpired(l, now))
                        => ~ instances'[i].guard /\ locks' = locks
                  /\ instances'[i].guard
                        => /\ mine \in locks'
                           /\ ~ \E l \in locks : l.repo_id = r /\ Unexpired(l, now)
                           /\ \A l \in locks' : l.repo_id = r => l = mine]_vars

\* C2 witness: instance i holds the un-expired lock of a record under its
\* guard, and instance j, which never reached the embedder, has gone past
\* the same record
C2_Witness ==
    \E i \in Instances : \E j \in Instances \ {i} :
        /\ instances[i].guard
        /\ \E l \in locks : /\ l.repo_id = CurrentRepo(i)
                            /\ l.instance_id = i
                            /\ Unexpired(l, now)
        /\ instances[j].idx = 2
        /\ instances[j].batch[1].id = CurrentRepo(i)
        /\ instances[j].breakers \in {ConfiguredBreakers, WornBreakers}

\* C3: whenever a process has invoked the embedder for a record, or is about
\* to write the record's embedding back, it has acquired the record's
\* processing lock before and has not released it yet.
C3_EmbedAndWriteUnderLock ==
    /\ \A w \in Workers :
          workers[w].pc = "embedding" =>
             \E l \in locks : l.repo_id = workers[w].batch[workers[w].idx].id
    /\ \A w \in Workers :
          workers[w].pc = "write" =>
             \A k \in 1..Len(workers[w].pending_updates) :
                \E l \in locks : l.repo_id = workers[w].pending_updates[k].repo_id
    /\ \A i \in Instances :
          instances[i].pc \in {"embedding", "update"} => instances[i].guard

\* C4: of the instances that run the lifecycle for the same pending record
\* one try_acquire returns true and one write occurs: while no lease in the
\* table has expired, an instance obtains the guard of a record only if no
\* write of the record's present version has been issued; an instance whose
\* try_acquire does not return true leaves the record without touching its
\* breaker, the database or the lock table.
C4_OneWinnerOneWrite ==
    [][\A j \in Instances :
          instances[j].pc = "acquire" /\ instances'[j] # instances[j] =>
             LET r == CurrentRepo(j)
             IN  /\ (instances'[j].guard /\ \A l \in locks : Unexpired(l, now))
                       => wcount[r][db[r].ver] = 0
                 /\ ~ instances'[j].guard =>
                       /\ instances'[j].breakers = instances[j].breakers
                       /\ instances'[j].pc \in {"acquire", "idle"}
                       /\ db' = db /\ wcount' = wcount /\ locks' = locks]_vars

\* C5: every write-back leaves the record with a non-empty embedding and an
\* embedding_generated_at >= its updated_at, so the record does not satisfy
\* needs_embedding right after the write.
C5_CompletedWriteClearsPredicate ==
    [][\A r \in Records :
          wcount'[r] # wcount[r] =>
             /\ db'[r].embedding # NoVec
             /\ db'[r].embedding.dim > 0
             /\ db'[r].embedding_generated_at >= db'[r].updated_at
             /\ ~ needs_embedding(db'[r])]_vars

\* C5 witness: a record written once that no longer needs an embedding
C5_Witness ==
    \E r \in Records :
        /\ wcount[r][db[r].ver] = 1
        /\ db[r].embedding.dim > 0
        /\ db[r].embedding_generated_at >= db[r].updated_at
        /\ ~ needs_embedding(db[r])

\* C6: a record whose embedding is up to date by its timestamps carries a
\* vector the provider computed from the text of the record's present source
\* fields, never a vector computed for an earlier version of the text.
C6_WrittenVectorIsOfCurrentText ==
    \A r \in Records :
        (db[r].embedding # NoVec /\ ~ needs_embedding(db[r]))
            => db[r].embedding.text.ver = db[r].ver

\* C7: a record changes in the database only by a change of its source or by
\* the write of a lifecycle that succeeded for it with an acceptable vector;
\* a step in which a lifecycle fails or skips the record (lock error or
\* refusal, breaker denial, embedder error, validation failure, write
\* failure) leaves every record as it was, needs_embedding included.
C7_FailedLifecycleLeavesRecord ==
    [][/\ \A r \in Records :
            db'[r] # db[r] =>
               \/ db'[r].ver # db[r].ver
               \/ \E i \in Instances :
                     /\ instances[i].pc = "update"
                     /\ CurrentRepo(i) = r
                     /\ Acceptable(instances[i].embedding)
                     /\ db'[r].embedding = instances[i].embedding
                     /\ instances'[i].status = "completed"
               \/ \E w \in Workers :
                     /\ workers[w].pc = "write"
                     /\ \E k \in 1..Len(workers[w].batch) :
                           /\ workers[w].batch[k].id = r
                           /\ workers[w].outcome[k] \in Successes
       /\ \A i \in Instances :
            \/ instances'[i].status = "failed" /\ instances[i].status # "failed"
            \/ instances[i].pc = "acquire" /\ ~ instances'[i].guard
                                           /\ instances'[i] # instances[i]
            => /\ db' = db
               /\ \A r \in Records : needs_embedding(db'[r]) = needs_embedding(db[r])
       /\ \A w \in Workers :
            (Len(workers'[w].outcome) > Len(workers[w].outcome)
             /\ workers'[w].outcome[Len(workers'[w].outcome)] \in Failures)
            => /\ db' = db
               /\ workers'[w].pending_updates = workers[w].pending_updates]_vars

\* C7 witness: an instance refused by its open breaker is about to release
\* with "failed" a record that still needs its embedding
C7_Witness ==
    \E i \in Instances :
        /\ instances[i].pc = "release"
        /\ instances[i].status = "failed"
        /\ instances[i].embedding = NoVec
        /\ instances[i].idx = 2
        /\ instances[i].breakers[ModelName].state = "Open"
        /\ needs_embedding(db[CurrentRepo(i)])

\* C8: in a batch every record gets its own outcome whatever the outcomes of
\* its peers, and the updates handed to the batch's write-back are exactly
\* those of the records whose lifecycle succeeded.
C8_FailureNeverAbortsPeers ==
    \A w \in Workers :
        LET wk == workers[w]
        IN  /\ Len(wk.outcome) = wk.idx - 1
            /\ wk.pc = "write" => Len(wk.outcome) = Len(wk.batch)
            /\ {wk.pending_updates[k].idx : k \in 1..Len(wk.pending_updates)}
                  = {k \in 1..Len(wk.outcome) : wk.outcome[k] \in Successes}
            /\ \A k \in 1..Len(wk.pending_updates) :
                  wk.pending_updates[k].repo_id = wk.batch[wk.pending_updates[k].idx].id

\* C8 witness: a batch at its write-back whose first record failed and whose
\* second record succeeded
C8_Witness ==
    \E w \in Workers :
        /\ workers[w].pc = "write"
        /\ Len(workers[w].outcome) = 2
        /\ workers[w].outcome[1] \in Failures
        /\ workers[w].outcome[2] \in Successes
        /\ Len(workers[w].pending_updates) = 1

C11_OpenUntilTimeout ==
    /\ [](\A s \in Services :
            breakers[s] # NoBreaker =>
               LET b == breakers[s]
                   r == should_allow_request(b, now)
                   elapsed == now - b.last_state_change
               IN  /\ b.state \in {"Closed", "HalfOpen"} => r[1] /\ r[2] = b
                   /\ (b.state = "Open" /\ elapsed < b.config.timeout_duration)
                         => ~ r[1] /\ r[2] = b
                   /\ (b.state = "Open" /\ elapsed >= b.config.timeout_duration)
                         => /\ r[1]
                            /\ r[2].state = "HalfOpen"
                            /\ r[2].last_state_change = now)
    /\ [][\A s \in Services :
            (breakers[s] # NoBreaker /\ breakers[s].state = "Open") =>
               /\ breakers'[s].state = "Open"
                     => breakers'[s].last_state_change = breakers[s].last_state_change
               /\ breakers'[s].state = "HalfOpen"
                     => now - breakers[s].last_state_change
                           >= breakers[s].config.timeout_duration
               /\ breakers'[s].failed_requests # breakers[s].failed_requests
                     => /\ breakers'[s].state = "Open"
                        /\ breakers'[s].last_state_change
                              = breakers[s].last_state_change]_vars

\* C11 witness: a breaker that went HalfOpen sooner than timeout_duration
\* after its last failure, that failure having been recorded while Open
C11_Witness ==
    \E s \in Services :
        /\ breakers[s] # NoBreaker
        /\ breakers[s].state = "HalfOpen"
        /\ breakers[s].successful_requests = 0
        /\ breakers[s].failed_requests > breakers[s].config.failure_threshold
        /\ breakers[s].last_state_change
              < breakers[s].last_failure_time + breakers[s].config.timeout_duration

\* C12: a success recorded in HalfOpen closes the breaker exactly when it is
\* the success_threshold-th since the breaker entered HalfOpen and otherwise
\* leaves it HalfOpen with one more counted; a failure recorded in HalfOpen
\* opens it; apart from reset() nothing else takes a breaker from HalfOpen to
\* Closed; half_open_successes is 0 on every entry to HalfOpen.
C12_HalfOpenRecovery ==
    /\ [](\A s \in Services :
            (breakers[s] # NoBreaker /\ breakers[s].state = "HalfOpen")
               => breakers[s].half_open_successes < breakers[s].config.success_threshold)
    /\ [][\A s \in Services :
            breakers[s] # NoBreaker =>
               LET b == breakers[s]
                   c == breakers'[s]
                   success == c.successful_requests = b.successful_requests + 1
                   failure == c.failed_requests = b.failed_requests + 1
               IN  /\ (b.state = "HalfOpen" /\ success) =>
                         IF b.half_open_successes + 1 >= b.config.success_threshold
                         THEN c.state = "Closed"
                         ELSE /\ c.state = "HalfOpen"
                              /\ c.half_open_successes = b.half_open_successes + 1
                   /\ (b.state = "HalfOpen" /\ failure) => c.state = "Open"
                   /\ (b.state = "HalfOpen" /\ c.state = "Closed") =>
                         \/ success
                         \/ c.total_requests = b.total_requests
                            /\ c.half_open_successes = 0
                   /\ (b.state # "HalfOpen" /\ c.state = "HalfOpen")
                         => c.half_open_successes = 0]_vars

\* C12 witness: a breaker closed again by the success_threshold-th success
\* of its half-open period
C12_Witness ==
    \E s \in Services :
        /\ breakers[s] # NoBreaker
        /\ breakers[s].state = "Closed"
        /\ breakers[s].half_open_successes = breakers[s].config.success_threshold
        /\ breakers[s].successful_requests = breakers[s].config.success_threshold
        /\ breakers[s].failed_requests >= breakers[s].config.failure_threshold

\* the breaker the lifecycle asks is Open and its timeout has not elapsed
GateBlocked ==
    /\ breakers[ModelName] # NoBreaker
    /\ breakers[ModelName].state = "Open"
    /\ now - breakers[ModelName].last_state_change
          < breakers[ModelName].config.timeout_duration

\* worker w takes the step that starts the lifecycle of its next record
StartsRecord(w) == workers[w].pc = "record" /\ workers'[w] # workers[w]

LastOutcome(wk) == wk.outcome[Len(wk.outcome)]

\* C13 as stated: while the breaker is Open and its timeout has not elapsed,
\* every lifecycle attempt ends as ServiceUnavailable, invokes no embedder
\* and records nothing with the breaker.
C13_EveryAttemptUnavailable ==
    [][\A w \in Workers :
          (StartsRecord(w) /\ GateBlocked) =>
             /\ workers'[w].pc # "embedding"
             /\ Len(workers'[w].outcome) = Len(workers[w].outcome) + 1
             /\ LastOutcome(workers'[w]) = "unavailable"
             /\ breakers' = breakers]_vars

\* C13, amended: while the breaker is Open and its timeout has not elapsed,
\* every lifecycle attempt that is not served from the cache ends as
\* ServiceUnavailable without invoking the embedder and without recording
\* anything with the breaker, and no attempt invokes the embedder; an attempt
\* that invokes the embedder on a breaker that was Open has moved it to
\* HalfOpen.
C13_MissedAttemptsUnavailable ==
    [][\A w \in Workers :
          StartsRecord(w) =>
             /\ GateBlocked =>
                   /\ workers'[w].pc # "embedding"
                   /\ Len(workers'[w].outcome) = Len(workers[w].outcome) + 1
                   /\ LastOutcome(workers'[w]) \in {"unavailable", "cached"}
                   /\ breakers' = breakers
                   /\ LastOutcome(workers'[w]) = "unavailable"
                         => workers'[w].pending_updates = workers[w].pending_updates
             /\ (workers'[w].pc = "embedding" /\ breakers[ModelName] # NoBreaker
                 /\ breakers[ModelName].state = "Open")
                   => breakers'[ModelName].state = "HalfOpen"]_vars

\* C13 witness: a worker that was refused on an Open breaker earlier in its
\* batch has now moved the breaker to HalfOpen and invoked the embedder
C13_Witness ==
    \E w \in Workers :
        /\ workers[w].pc = "embedding"
        /\ Len(workers[w].outcome) >= 1
        /\ workers[w].outcome[1] = "unavailable"
        /\ breakers[ModelName].state = "HalfOpen"
        /\ breakers[ModelName].half_open_successes = 0

\* C14: the breaker that the lifecycle consults and records with is the one
\* installed at start-up under the provider's name, with the thresholds
\* configured there: no request is counted under any other key or
\* configuration.
C14_LifecycleUsesConfiguredKey ==
    \A s \in Services :
        Requests(breakers, s) > 0 =>
            /\ s = ProviderName
            /\ breakers[s].config = OllamaBreakerConfig

\* what with_retry may have been asked to retry
RetryableKinds == {e \in ErrorKinds : is_retryable(e)}

\* C15: with_retry invokes the operation at most max_retries + 1 times; the
\* first success is returned at once, with nothing invoked after it; when
\* every attempt fails with a retryable error the error returned is that of
\* attempt max_retries + 1; and with_retry terminates.
C15_AtMostMaxRetriesPlusOne ==
    /\ [](retry.invocations = Len(retry.answers)
          /\ retry.invocations <= retry.max_retries + 1
          /\ \A i \in 1..(Len(retry.answers) - 1) : retry.answers[i] # "Ok")
    /\ [](retry.pc = "done" =>
            /\ retry.invocations >= 1
            /\ retry.result = retry.answers[retry.invocations]
            /\ (\A i \in 1..retry.invocations : retry.answers[i] \in RetryableKinds)
                  => /\ retry.invocations = retry.max_retries + 1
                     /\ retry.sleeps = retry.max_retries)
    /\ [][retry.pc = "done" => retry' = retry]_vars
    /\ <>(retry.pc = "done")

\* C15 witness: three retryable failures slept on, the fourth returned
C15_Witness ==
    /\ retry.pc = "done"
    /\ retry.max_retries = 3
    /\ retry.invocations = 4
    /\ retry.sleeps = 3
    /\ retry.result \in {"Database", "Http", "RateLimitExceeded", "ServiceUnavailable"}

\* C16: is_retryable is true exactly for Database, Http (transport),
\* RateLimitExceeded and ServiceUnavailable, and false for Configuration,
\* InvalidDimension and every other kind; an operation that fails with a
\* non-retryable error is not invoked again: with_retry returns that error,
\* after exactly one invocation and no sleep when it is the first answer.
C16_NonRetryableReturnsAtOnce ==
    LET Transient == {"Database", "Http", "RateLimitExceeded", "ServiceUnavailable"}
    IN  /\ \A e \in ErrorKinds : is_retryable(e) <=> e \in Transient
        /\ ~ is_retryable("Configuration")
        /\ ~ is_retryable("InvalidDimension")
        /\ retry # NoCall =>
              /\ \A i \in 1..(Len(retry.answers) - 1) : retry.answers[i] \in Transient
              /\ \A i \in 1..Len(retry.answers) :
                    retry.answers[i] \notin Transient =>
                        /\ retry.pc = "done"
                        /\ retry.result = retry.answers[i]
                        /\ retry.sleeps = i - 1
              /\ (Len(retry.answers) >= 1 /\ retry.answers[1] \notin Transient)
                    => /\ retry.invocations = 1
                       /\ retry.sleeps = 0

\* C16 witness: a Configuration error on the first invocation of a call that
\* had three retries to spend
C16_Witness ==
    /\ retry.pc = "done"
    /\ retry.max_retries = 3
    /\ retry.result = "Configuration"
    /\ retry.invocations = 1
    /\ retry.sleeps = 0

\* C17: a provider failure of the embedder inside the lifecycle is retried by
\* the worker's envelope around generate_embedding: the envelope gives the
\* failure up to the breaker only after max_retries further invocations.
C17_ProviderFailureRetried ==
    (/\ retry # NoCall
     /\ retry.op = "generate_embedding"
     /\ retry.pc = "done"
     /\ retry.result = "EmbeddingProvider")
        => /\ retry.invocations = retry.max_retries + 1
           /\ retry.sleeps = retry.max_retries

\* what together_e5_validator() lets through
PassesE5(v) ==
    /\ v # NoVec
    /\ v.dim = 1024
    /\ v.finite
    /\ v.mag >= 50 /\ v.mag <= 200
    /\ 2 * v.zeros <= v.dim
    /\ v.varied

\* the call is over and its embedder has the E5 validator installed
ValidatedCallDone ==
    /\ embed # NoCall
    /\ embed.model = E5Model
    /\ embed.pc = "done"

\* C18: with a validator installed, generate_embedding returns Ok(v) only for
\* the vector of its last attempt, which passed the validator on that
\* attempt; every other call returns an error and no vector.
C18_OnlyValidatedVectorsReturned ==
    ValidatedCallDone =>
        IF embed.result = "Ok"
        THEN /\ embed.answers[embed.attempts].ok
             /\ embed.embedding = embed.answers[embed.attempts].v
             /\ PassesE5(embed.embedding)
             /\ embed.validation_pass = 1
        ELSE /\ embed.result = "Err"
             /\ embed.embedding = NoVec
             /\ embed.validation_pass = 0
             /\ \A i \in 1..embed.attempts : ~ PassesE5(embed.answers[i].v)

\* C18 witness: a call that saw a vector fail the validator and returned a
\* later one that passed
C18_Witness ==
    /\ ValidatedCallDone
    /\ embed.result = "Ok"
    /\ embed.validation_fail >= 1
    /\ \E i \in 1..(embed.attempts - 1) :
          embed.answers[i].ok /\ embed.answers[i].v.dim = 768

\* the number of provider calls a call with retry_attempts = n may make
CallBudget(n) == IF n = 0 THEN 1 ELSE n

\* C19: a validation failure is retried while attempts remain; provider
\* errors and validation failures are counted by the one attempt counter,
\* which bounds the provider calls by n (1 when n = 0); a call whose first
\* k-1 results fail validation and whose k-th passes succeeds on attempt k
\* with k-1 failures and one pass counted.
C19_ValidationFailureRetried ==
    (embed # NoCall /\ embed.model = E5Model) =>
        LET n == embed.retry_attempts
            k == embed.attempts
        IN  /\ embed.provider_calls = k
            /\ Len(embed.answers) = k
            /\ k <= CallBudget(n)
            /\ k = embed.provider_errors + embed.validation_fail
                      + embed.validation_pass
            /\ embed.provider_errors = Cardinality({i \in 1..k : ~ embed.answers[i].ok})
            /\ embed.pc = "sleep" => k < n
            /\ (k >= 1 /\ ~ PassesE5(embed.answers[k].v)) =>
                  IF k < n THEN embed.pc \in {"sleep", "call"}
                  ELSE embed.pc = "done" /\ embed.result = "Err"
            /\ (/\ k >= 1
                /\ PassesE5(embed.answers[k].v)
                /\ \A i \in 1..(k - 1) : embed.answers[i].ok)
                  => /\ embed.pc = "done"
                     /\ embed.result = "Ok"
                     /\ embed.validation_fail = k - 1
                     /\ embed.validation_pass = 1

\* C19 witness: retry_attempts = 3, two validation failures, success on the
\* third attempt
C19_Witness ==
    /\ embed # NoCall
    /\ embed.model = E5Model
    /\ embed.retry_attempts = 3
    /\ embed.pc = "done"
    /\ embed.result = "Ok"
    /\ embed.attempts = 3
    /\ embed.validation_fail = 2
    /\ embed.validation_pass = 1
    /\ embed.provider_errors = 0

Expired(c, k, t) == c.entries[k] # NoEntry /\ t - c.entries[k].created_at > CacheTtl

\* C21: a get of a key whose entry is older than the TTL misses and removes
\* the entry, so that the key misses until it is put again; a hit returns the
\* stored vector, sets last_accessed and counts the hit, and leaves
\* created_at as it was.
C21_ExpiredEntriesMiss ==
    /\ [](\A k \in CacheKeys :
            LET e == cache.entries[k]
                got == CacheGet(cache, k, now)
            IN  /\ e = NoEntry => ~ got[1] /\ got[3] = cache
                /\ Expired(cache, k, now) =>
                      /\ ~ got[1]
                      /\ got[3].entries[k] = NoEntry
                      /\ \A t \in now..MaxCacheTime : ~ CacheGet(got[3], k, t)[1]
                /\ (e # NoEntry /\ ~ Expired(cache, k, now)) =>
                      /\ got[1]
                      /\ got[2] = e.embedding
                      /\ got[3].entries[k].created_at = e.created_at
                      /\ got[3].entries[k].last_accessed = now
                      /\ got[3].entries[k].access_count = e.access_count + 1)
    /\ [][\A k \in CacheKeys :
            /\ (cache.entries[k] = NoEntry /\ cache'.entries[k] # NoEntry)
                  => cacheOp'.pc = "put" /\ cacheOp'.key = k
            /\ (/\ cache.entries[k] # NoEntry
                /\ cache'.entries[k] # NoEntry
                /\ cache'.entries[k].created_at # cache.entries[k].created_at)
                  => cacheOp'.pc = "put" /\ cacheOp'.key = k
            /\ (cacheOp'.pc = "get" /\ cacheOp'.key = k /\ cache' # cache) =>
                  IF Expired(cache, k, now)
                  THEN /\ cacheOp'.expired /\ ~ cacheOp'.hit
                       /\ cache'.entries[k] = NoEntry
                  ELSE /\ cacheOp'.hit /\ ~ cacheOp'.expired
                       /\ cache'.entries[k].created_at = cache.entries[k].created_at
                       /\ cache'.entries[k].last_accessed = now
                       /\ cache'.entries[k].access_count
                             = cache.entries[k].access_count + 1]_vars

\* C21 witness: the last call was a get that found its entry expired and
\* removed it, while a younger entry stays
C21_Witness ==
    /\ cacheOp.pc = "get"
    /\ cacheOp.expired
    /\ ~ cacheOp.hit
    /\ cache.entries[cacheOp.key] = NoEntry
    /\ \E k \in CacheKeys : cache.entries[k] # NoEntry /\ cache.entries[k].access_count = 1

\* the keys that hold an entry
Present(c) == {k \in CacheKeys : c.entries[k] # NoEntry}

\* C22: a put of a new key into a cache that holds max_size entries evicts
\* exactly one entry, the one whose last access (by put or by a get that
\* hit) is the earliest, whatever puts and gets came before.
C22_EvictsLeastRecentlyUsed ==
    [][(/\ cacheOp'.pc = "put"
        /\ cache' # cache
        /\ cache.entries[cacheOp'.key] = NoEntry
        /\ CacheLen(cache) = CacheMaxSize)
          => LET gone == Present(cache) \ Present(cache')
             IN  /\ Cardinality(gone) = 1
                 /\ \A j \in gone : \A i \in Present(cache) :
                       cache.entries[j].last_accessed
                          <= cache.entries[i].last_accessed]_vars

\* C23: the cache never holds more than max_size entries, whatever calls of
\* put, get, evict_expired and clear are made on it.
C23_AtMostMaxSizeEntries ==
    /\ CacheLen(cache) <= CacheMaxSize
    /\ \A k \in CacheKeys :
          LET c == CachePut(cache, k, CachedVector("a/r1"), ModelName, now)
          IN  CacheLen(c) <= CacheMaxSize /\ c.entries[k] # NoEntry

\* C23 witness: a full cache whose last put had to evict, with a key queued
\* twice in access_order
C23_Witness ==
    /\ cacheOp.pc = "put"
    /\ CacheLen(cache) = CacheMaxSize
    /\ cache.entries[cache_key("a/r1", ModelName)] = NoEntry
    /\ Len(cache.access_order) > CacheMaxSize
    /\ \E k \in CacheKeys : cache.entries[k] # NoEntry /\ cache.entries[k].access_count > 0

\* the record worker w is about to start and its cache key
NextRecord(w) == workers[w].batch[workers[w].idx]
NextKey(w) == cache_key(NextRecord(w).full_name, ModelName)

\* the cache holds an entry for the key that has not outlived the TTL
Fresh(k) == cache.entries[k] # NoEntry /\ now - cache.entries[k].created_at <= CacheTtl

\* C24: when the cache holds a live entry for the record's key, the
\* lifecycle stages the cached vector for the batched write of that record
\* and makes no wait_for_permit call, no breaker call and no embedder call
\* for it.
C24_CacheHitSkipsProvider ==
    [][\A w \in Workers :
          (StartsRecord(w) /\ Fresh(NextKey(w))) =>
             /\ workers'[w].pending_updates =
                   Append(workers[w].pending_updates,
                          [repo_id |-> NextRecord(w).id,
                           embedding |-> cache.entries[NextKey(w)].embedding,
                           idx |-> workers[w].idx])
             /\ workers'[w].outcome = Append(workers[w].outcome, "cached")
             /\ workers'[w].permits = workers[w].permits
             /\ workers'[w].pc # "embedding"
             /\ breakers' = breakers]_vars

\* C24 witness: a worker has staged a vector from the cache for its second
\* record without a permit, after it generated one for its first record
C24_Witness ==
    \E w \in Workers :
        /\ workers[w].outcome = <<"ok", "cached">>
        /\ workers[w].permits = 1
        /\ Len(workers[w].pending_updates) = 2
        /\ Requests(breakers, ModelName) = 1

\* the shutdown signal has been published to the tasks
Signalled == shutdown.sent[SignalChannel] > 0

\* C25: a worker that is in a batch when shutdown is signalled finishes the
\* lifecycle and the write-back of that batch before it exits, it does exit,
\* and once the signal is published it starts no new batch.
C25_DrainThenExit ==
    /\ [][\A w \in Workers :
            /\ (Signalled /\ workers[w].pc = "idle") => workers'[w].pc = "idle"
            /\ (Running(w) /\ shutdown'.task[w] = "exited") =>
                  /\ workers[w].pc = "idle"
                  /\ workers[w].pending_updates = <<>>]_vars
    /\ Signalled ~> (\A w \in Workers : ~ Running(w))

\* C26: whatever publishes the shutdown signal (SIGINT, SIGTERM, or the
\* controller of GracefulShutdown), it is published once on its channel and
\* the receiver of every registered task is a receiver of that channel and
\* gets the value.
C26_EveryTaskReceivesSignal ==
    \A c \in Channels :
        /\ shutdown.sent[c] <= 1
        /\ shutdown.sent[c] = 1 =>
              \A t \in Tasks :
                  /\ shutdown.rx[t].channel = c
                  /\ shutdown.rx[t].queued + shutdown.rx[t].received >= 1

\* C27: after the shutdown signal both discovery producers terminate; none
\* stays blocked on a send.
C27_ProducersTerminate ==
    Signalled ~> (~ Running(ScannerTask) /\ ~ Running(ForwarderTask))

\* C29: batch_update_embeddings reports total = |updates| and successful +
\* failed = total: {0, 0, 0} without a database request for an empty list,
\* successful = total after a transaction that went through, and after a
\* failed transaction one count per row of the fallback, by that row's outcome.
C29_BatchUpdateTotals ==
    update.pc = "returned" =>
        /\ update.result.total = Len(update.updates)
        /\ update.result.successful + update.result.failed = update.result.total
        /\ update.updates = <<>> =>
              /\ update.result = BatchUpdateResultDefault
              /\ update.queries = 0
        /\ update.txn = "ok" => update.result.successful = update.result.total
        /\ update.txn = "err" =>
              /\ Len(update.rows) = Len(update.updates)
              /\ update.result.successful = Count(update.rows, "ok")
              /\ update.result.failed = Count(update.rows, "err")

C29_Witness ==
    /\ update.pc = "returned"
    /\ update.txn = "err"
    /\ Len(update.updates) = 2
    /\ update.rows = <<"err", "ok">>
    /\ update.result = [total |-> 2, successful |-> 1, failed |-> 1]

\* C30: zero rpm means unlimited: a provider whose configure call had rpm 0,
\* and a provider never configured, has no bucket; its wait_for_permit
\* returns at once and its check succeeds.
C30_ZeroRpmUnlimited ==
    \A p \in LimiterProviders :
        limiters.configured[p] \in {0, NeverConfigured} =>
            /\ limiters.buckets[p] = NoBucket
            /\ (limiters.call.provider = p
                    /\ limiters.call.op \in {"check", "wait"}) =>
                  /\ limiters.call.answer = "Ok"
                  /\ ~ limiters.call.waited

\* record r is queued in the poller's channel or in the discovery channel
Enqueued(r) ==
    \/ \E k \in 1..Len(poller.live) : poller.live[k].id = r
    \/ \E k \in 1..Len(chan) : chan[k].id = r

\* C28: under fair scheduling, with the backlog scanner terminated, a record
\* that needs an embedding and is not queued is queued (again) by the change
\* poller unless it stops needing one, whatever happened to its earlier
\* lifecycles and however many other records need an embedding.
C28_PollerEnqueuesEveryRecord ==
    \A r \in Records :
        (needs_embedding(db[r]) /\ ~ Enqueued(r)) ~>
            (Enqueued(r) \/ ~ needs_embedding(db[r]))

\* s is a prefix of t
IsPrefix(s, t) == Len(s) <= Len(t) /\ SubSeq(t, 1, Len(s)) = s

\* C31: truncate_text returns a text of length <= token_limit as it is; a
\* longer text comes back with length exactly token_limit, ending in "..."
\* after a prefix of the text.
C31_Truncation ==
    embed.pc = "truncated" =>
        LET r == embed.result
        IN  /\ ~ r.panic
            /\ IF StrLen(embed.text) <= embed.token_limit
               THEN r.text = embed.text
               ELSE /\ StrLen(r.text) = embed.token_limit
                    /\ Len(r.text) >= 3
                    /\ SubSeq(r.text, Len(r.text) - 2, Len(r.text)) = Ellipsis
                    /\ IsPrefix(SubSeq(r.text, 1, Len(r.text) - 3), embed.text)

\* worker w takes the head of the channel as its batch, in this step
TakesBatch(w) ==
    /\ workers[w].pc = "idle"
    /\ workers[w].batch = <<>>
    /\ workers'[w].batch # <<>>
    /\ Len(workers'[w].batch) <= BatchSize
    /\ chan = workers'[w].batch \o chan'
    /\ \A v \in Workers \ {w} : workers'[v] = workers[v]

C33_SeenSetSendsOnceAndIsBounded ==
    /\ poller.sent <= 1
    /\ poller.tracked <=> poller.sent = 1
    /\ ~ (poller.last_sent /\ poller.last_seen)
    /\ poller.size <= MaxProcessedIds

C33_Witness ==
    /\ poller.tracked
    /\ poller.last_seen
    /\ poller.sent = 1
    /\ poller.size = (ClearInterval - 1) * PollerQueryLimit + 1

\* the edges of the breaker's state machine
BreakerEdges ==
    {<<"Closed", "Open">>, <<"Open", "HalfOpen">>,
     <<"HalfOpen", "Closed">>, <<"HalfOpen", "Open">>}

\* C34: through should_allow, record_success and record_failure a breaker's
\* state changes only along Closed->Open, Open->HalfOpen, HalfOpen->Closed and
\* HalfOpen->Open (a step of reset aside).
C34_StateChangesAlongEdges ==
    [][\A s \in Services :
          (/\ breakers[s] # NoBreaker
           /\ breakers'[s] # NoBreaker
           /\ breakers'[s].state # breakers[s].state
           /\ breakers' # ManagerReset(breakers, s, now))
              => <<breakers[s].state, breakers'[s].state>> \in BreakerEdges]_vars

C34_Witness ==
    \E s \in Services :
        /\ breakers[s] # NoBreaker
        /\ breakers[s].state = "Open"
        /\ breakers[s].half_open_successes = 1
        /\ breakers[s].successful_requests = 1
        /\ breakers[s].last_state_change = breakers[s].last_failure_time
        /\ breakers[s].last_state_change > 0

\* worker w's request under way was admitted in the HalfOpen period the
\* breaker is in
AdmittedAsProbe(w) ==
    /\ workers[w].admitted.state = "HalfOpen"
    /\ workers[w].admitted.since = breakers[ModelName].last_state_change

\* C35: with workers sharing one breaker, only the successes of requests
\* admitted while the breaker was HalfOpen count towards closing it: a request
\* admitted before the breaker opened is not counted as a probe result.
C35_OnlyProbesCountTowardsClosing ==
    [][\A w \in Workers :
          (/\ workers[w].pc = "embedding"
           /\ workers'[w].pc # "embedding"
           /\ breakers[ModelName].state = "HalfOpen"
           /\ breakers'[ModelName].half_open_successes
                 > breakers[ModelName].half_open_successes)
              => AdmittedAsProbe(w)]_vars

\* C36: whatever puts, gets, evict_expired and clear came before, the
\* access-order queue holds exactly the keys of the entry map, each once.
C36_QueueHoldsEachKeyOnce ==
    \A k \in CacheKeys :
        Count(cache.access_order, k) = IF cache.entries[k] # NoEntry THEN 1 ELSE 0

\* C37: put terminates and releases the locks for every max_size, zero
\* included: whenever its eviction loop runs, it finds an entry to evict.
C37_PutTerminates ==
    /\ cacheOp.pc # "put_loop"
    /\ cacheOp.pc = "put" => cache.entries[cacheOp.key] # NoEntry

C39_OneHolderUntilRelease ==
    /\ \A i \in Instances : \A j \in Instances \ {i} :
          instances[i].guard /\ instances[j].guard
             => CurrentRepo(i) # CurrentRepo(j)
    /\ \A i \in Instances :
          instances[i].guard
             => \E l \in locks : /\ l.repo_id = CurrentRepo(i)
                                 /\ l.instance_id = i
                                 /\ Unexpired(l, now)

\* C40: the backlog scanner ends on an empty result, on shutdown or on a
\* closed channel and on nothing else; a query error sends it to its sleep
\* and from there to the next query; and a query is issued only when every
\* row of the results before it has been enqueued.
C40_ScannerTermination ==
    [][/\ (scanner'.pc = "done" /\ scanner.pc # "done")
            => /\ scanner.pc = "query"
               /\ scanner'.last = "Ok"
               /\ get_repos_needing_embeddings(db) = <<>>
       /\ (/\ scanner'.scans > scanner.scans
           /\ scanner'.last = "Ok"
           /\ get_repos_needing_embeddings(db) = <<>>)
            => scanner'.pc = "done"
       /\ (scanner'.pc = "shutdown" /\ scanner.pc # "shutdown")
            => scanner.signal
       /\ (scanner'.pc = "closed" /\ scanner.pc # "closed")
            => scanner.rx_closed
       /\ scanner.pc \in {"done", "shutdown", "closed"}
            => /\ scanner'.pc = scanner.pc
               /\ scanner'.scans = scanner.scans
               /\ scanner'.sent = scanner.sent
       /\ scanner'.errors > scanner.errors
            => scanner'.pc = "error_sleep"
       /\ (scanner.pc = "error_sleep" /\ scanner'.pc # "error_sleep")
            => scanner'.pc = "query"
       /\ scanner'.scans > scanner.scans
            => /\ scanner.buf = <<>>
               /\ scanner.sent = scanner.returned]_vars

\* C40 witness: the scanner has ended on an empty result after a query that
\* failed and a query whose rows were all enqueued
C40_Witness ==
    /\ scanner.pc = "done"
    /\ scanner.errors >= 1
    /\ scanner.sent = Cardinality(Records)
    /\ scanner.sent = scanner.returned

\* The two open conditions of section 4.3, on the counters of b
OpenCondition(b) ==
    \/ b.consecutive_failures >= b.config.failure_threshold
    \/ /\ b.total_requests >= b.config.min_requests
       /\ FailureRateReached(b)

\* C10: for every service, a step that takes the breaker from Closed to Open
\* finds consecutive_failures >= failure_threshold, or total_requests >=
\* min_requests with failed/total >= failure_rate_threshold, on the counters
\* at that instant; a step that records a success never opens the breaker.
C10_ClosedToOpenOnlyOnCondition ==
    [][\A s \in Services :
          /\ (breakers[s].state = "Closed" /\ breakers'[s].state = "Open")
                => /\ OpenCondition(breakers'[s])
                   /\ breakers'[s].failed_requests = breakers[s].failed_requests + 1
          /\ (breakers[s].state \in {"Closed", "HalfOpen"}
              /\ breakers'[s].state # "none"
              /\ breakers'[s].successful_requests # breakers[s].successful_requests)
                => breakers'[s].state # "Open"]_vars

\* C10 witness: a breaker opened by the failure rate alone (2 failures of 5
\* requests at threshold 0.3, fewer than 3 consecutive failures)
C10_Witness ==
    \E s \in Services :
        /\ breakers[s].state = "Open"
        /\ breakers[s].total_requests = 5
        /\ breakers[s].failed_requests = 2
        /\ breakers[s].consecutive_failures = 2
        /\ breakers[s].last_state_change = breakers[s].last_failure_time

----------------------------------------------------------------------------
(* Specifications *)

IdleMain ==
    /\ locks = {}
    /\ instances = [i \in Instances |-> IdleInstance(ConfiguredBreakers)]

InitBreaker ==
    /\ now = 0
    /\ breakers = ConfiguredBreakers
    /\ ServiceInit
    /\ IdleMain
    /\ IdleCalls

NextBreaker ==
    \/ BreakerTick
    \/ \E s \in Services : BreakerShouldAllow(s)
    \/ \E s \in Services : BreakerRecordSuccess(s)
    \/ \E s \in Services : BreakerRecordFailure(s)
    \/ \E s \in Services : BreakerReset(s)

SpecBreaker == InitBreaker /\ [][NextBreaker]_vars

Init ==
    /\ now = 0
    /\ breakers = ConfiguredBreakers
    /\ ServiceInit
    /\ IdleMain
    /\ IdleCalls

Next ==
    \/ Tick
    \/ \E r \in Records : UpdateSource(r)
    \/ ScanQuery
    \/ ScanSend
    \/ PollQuery
    \/ LiveForward
    \/ \E w \in Workers : WorkerFill(w)
    \/ \E w \in Workers : WorkerStartRecord(w)
    \/ \E w \in Workers : WorkerFinishRecord(w)
    \/ \E w \in Workers : WorkerWrite(w)

Spec == Init /\ [][Next]_vars

InitMain ==
    /\ now = 0
    /\ breakers = ConfiguredBreakers
    /\ ServiceInit
    /\ MainInit
    /\ IdleCalls

NextMain ==
    \/ Tick
    \/ \E r \in Records : UpdateSource(r)
    \/ \E i \in Instances : MainScan(i)
    \/ \E i \in Instances : MainRecv(i)
    \/ \E i \in Instances : MainInterval(i)
    \/ \E i \in Instances : MainAcquire(i)
    \/ \E i \in Instances : MainEmbedDone(i)
    \/ \E i \in Instances : MainUpdate(i)
    \/ \E i \in Instances : MainRelease(i)
    \/ \E i \in Instances : MainCleanup(i)

SpecMain == InitMain /\ [][NextMain]_vars

\* The service with a breaker that has counted four consecutive failures of
\* the provider, on the clock of SpecBreaker and with no change of sources
InitGate ==
    /\ now = 0
    /\ breakers = WornBreakers
    /\ ServiceInit
    /\ IdleMain
    /\ IdleCalls

NextGate ==
    \/ BreakerTick
    \/ ScanQuery
    \/ ScanSend
    \/ PollQuery
    \/ LiveForward
    \/ \E w \in Workers : WorkerFill(w)
    \/ \E w \in Workers : WorkerStartRecord(w)
    \/ \E w \in Workers : WorkerFinishRecord(w)
    \/ \E w \in Workers : WorkerWrite(w)

SpecGate == InitGate /\ [][NextGate]_vars

InitRetry ==
    /\ now = 0
    /\ breakers = ConfiguredBreakers
    /\ ServiceInit
    /\ IdleMain
    /\ embed = NoCall
    /\ IdleSupport
    /\ retry \in {with_retry_start(op, m) :
                     op \in Operations, m \in 0..MaxRetriesConfig}

NextRetry ==
    \/ RetryInvoke
    \/ RetrySleep

\* the runtime polls the future of with_retry until it is ready
SpecRetry == InitRetry /\ [][NextRetry]_vars /\ WF_vars(NextRetry)

InitEmbedder ==
    /\ now = 0
    /\ breakers = ConfiguredBreakers
    /\ ServiceInit
    /\ IdleMain
    /\ retry = NoCall
    /\ IdleSupport
    /\ embed \in {generate_embedding_start(model, n) :
                     model \in Models, n \in 0..MaxRetryAttempts}

NextEmbedder ==
    \/ EmbedAttempt
    \/ EmbedSleep

SpecEmbedder == InitEmbedder /\ [][NextEmbedder]_vars

InitCache ==
    /\ now = 0
    /\ breakers = ConfiguredBreakers
    /\ ServiceInit
    /\ IdleMain
    /\ retry = NoCall
    /\ embed = NoCall
    /\ cacheOp = [pc |-> "new", key |-> <<>>, hit |-> FALSE, embedding |-> NoVec,
                  expired |-> FALSE]
    /\ limiters = NoCall
    /\ shutdown = NoCall
    /\ update = NoCall

NextCache ==
    \/ \E name \in CacheNames : CacheOpGet(name)
    \/ \E name \in CacheNames : CacheOpPut(name)
    \/ CacheOpEvictExpired
    \/ CacheOpClear
    \/ CacheWait

SpecCache == InitCache /\ [][NextCache]_vars

InitShutdown ==
    /\ now = 0
    /\ breakers = ConfiguredBreakers
    /\ ServiceInit \/ BacklogInit
    /\ IdleMain
    /\ retry = NoCall
    /\ embed = NoCall
    /\ cacheOp = NoCall
    /\ limiters = NoCall
    /\ update = NoCall
    /\ shutdown = ShutdownNew

WorkerSteps(w) ==
    \/ SdWorkerShutdown(w)
    \/ SdWorkerFill(w)
    \/ WorkerStartRecord(w)
    \/ WorkerFinishRecord(w)
    \/ WorkerWrite(w)

ScannerSteps ==
    \/ SdScanShutdown
    \/ SdScanFinished
    \/ SdScanQuery
    \/ SdScanSend

ForwarderSteps ==
    \/ SdLiveShutdown
    \/ SdLiveRecv
    \/ SdLiveSend

MainSteps ==
    \/ SdGraceful
    \/ SdJoined
    \/ SdTimeout

NextShutdown ==
    \/ \E sig \in Signals : SdSignal(sig)
    \/ MainSteps
    \/ \E w \in Workers : WorkerSteps(w)
    \/ ScannerSteps
    \/ ForwarderSteps
    \/ PollQuery

\* the runtime runs every task that is ready
SpecShutdown ==
    /\ InitShutdown
    /\ [][NextShutdown]_vars
    /\ \A w \in Workers : WF_vars(WorkerSteps(w))
    /\ WF_vars(ScannerSteps)
    /\ WF_vars(ForwarderSteps)
    /\ WF_vars(MainSteps)

InitUpdate ==
    /\ now = 0
    /\ breakers = ConfiguredBreakers
    /\ ServiceInit
    /\ IdleMain
    /\ retry = NoCall
    /\ embed = NoCall
    /\ cacheOp = NoCall
    /\ limiters = NoCall
    /\ shutdown = NoCall
    /\ update = [pc |-> "new", updates |-> <<>>, txn |-> "none",
                 rows |-> <<>>, queries |-> 0, successful |-> 0, failed |-> 0,
                 result |-> NoResult]

NextUpdate ==
    \/ \E ups \in UpdateLists : UpdateCall(ups)
    \/ \E ok \in BOOLEAN : UpdateTransaction(ok)
    \/ \E ok \in BOOLEAN : UpdateFallbackRow(ok)

SpecUpdate == InitUpdate /\ [][NextUpdate]_vars

InitLimiter ==
    /\ now = 0
    /\ breakers = ConfiguredBreakers
    /\ ServiceInit
    /\ IdleMain
    /\ retry = NoCall
    /\ embed = NoCall
    /\ cacheOp = NoCall
    /\ limiters = RateLimiterManagerNew
    /\ shutdown = NoCall
    /\ update = NoCall

NextLimiter ==
    \/ \E p \in LimiterProviders, rpm \in 0..MaxRpm : LimConfigure(p, rpm)
    \/ \E p \in LimiterProviders : LimCheck(p)
    \/ \E p \in LimiterProviders : LimWaitForPermit(p)
    \/ \E p \in LimiterProviders : LimReplenish(p)
    \/ LimReady

SpecLimiter == InitLimiter /\ [][NextLimiter]_vars

InitPoller ==
    /\ now = 0
    /\ breakers = ConfiguredBreakers
    /\ ServiceInit
    /\ IdleMain
    /\ IdleCalls

NextPoller ==
    \/ PollCycle
    \/ PollForward
    \/ \E ok \in BOOLEAN : PollConsume(ok)

\* the polling task, the forwarding task and the workers are tokio tasks:
\* each is run again and again while it can take a step
SpecPoller ==
    /\ InitPoller
    /\ [][NextPoller]_vars
    /\ WF_vars(PollCycle)
    /\ WF_vars(PollForward)
    /\ WF_vars(\E ok \in BOOLEAN : PollConsume(ok))

\* token_limit >= 1 is what Config::validate lets through; the build may or
\* may not check arithmetic overflow
InitTruncate ==
    /\ now = 0
    /\ breakers = ConfiguredBreakers
    /\ ServiceInit
    /\ IdleMain
    /\ retry = NoCall
    /\ IdleSupport
    /\ \E limit \in 1..MaxTokenLimit, checks \in BOOLEAN :
          embed = [pc |-> "new", token_limit |-> limit,
                   overflow_checks |-> checks, text |-> <<>>,
                   result |-> [panic |-> FALSE, text |-> <<>>]]

NextTruncate == \E text \in Texts : TruncateCall(text)

SpecTruncate == InitTruncate /\ [][NextTruncate]_vars

InitSeen ==
    /\ now = 0
    /\ breakers = ConfiguredBreakers
    /\ db = [r \in Records |->
                [ver |-> 0, updated_at |-> 0, embedding |-> NoVec,
                 embedding_generated_at |-> NoTime]]
    /\ wcount = [r \in Records |-> [v \in 0..MaxUpdates |-> 0]]
    /\ chan = <<>>
    /\ scanner = [pc |-> "query", buf |-> <<>>, scans |-> 0]
    /\ poller = [clear_counter |-> 0, size |-> 0, tracked |-> FALSE,
                 sent |-> 0, last_sent |-> FALSE, last_seen |-> FALSE]
    /\ cache = EmptyCache
    /\ workers = [w \in Workers |-> IdleWorker]
    /\ IdleMain
    /\ IdleCalls

NextSeen ==
    \E fresh \in FreshCounts, returned \in BOOLEAN : SeenPoll(fresh, returned)

SpecSeen == InitSeen /\ [][NextSeen]_vars

InitSized ==
    /\ now = 0
    /\ breakers = ConfiguredBreakers
    /\ ServiceInit
    /\ IdleMain
    /\ retry = NoCall
    /\ embed = NoCall
    /\ \E size \in 0..CacheMaxSize :
          cacheOp = [pc |-> "new", max_size |-> size, key |-> <<>>,
                     at_capacity |-> FALSE]
    /\ limiters = NoCall
    /\ shutdown = NoCall
    /\ update = NoCall

NextSized ==
    \/ \E name \in CacheNames : SizedPut(name)
    \/ \E name \in CacheNames : SizedGet(name)
    \/ SizedEvictExpired
    \/ SizedClear
    \/ CacheWait

SpecSized == InitSized /\ [][NextSized]_vars

InitSubscribe ==
    /\ now = 0
    /\ breakers = ConfiguredBreakers
    /\ ServiceInit
    /\ IdleMain
    /\ retry = NoCall
    /\ embed = NoCall
    /\ cacheOp = NoCall
    /\ limiters = NoCall
    /\ update = NoCall
    /\ shutdown = ShutdownStarting

SubTaskSteps ==
    \/ \E w \in Workers : SdWorkerShutdown(w)
    \/ SdScanShutdown
    \/ SdLiveShutdown

SubMainSteps ==
    \/ SubSpawn
    \/ SubAllSpawned
    \/ SdGraceful
    \/ SdJoined
    \/ SdTimeout

NextSubscribe ==
    \/ \E sig \in Signals : SubSignal(sig)
    \/ SubHandlerEnds
    \/ SubMainSteps
    \/ SubTaskSteps

\* run_with_config, the handler task and every spawned task are run again
\* and again while they can take a step
SpecSubscribe ==
    /\ InitSubscribe
    /\ [][NextSubscribe]_vars
    /\ WF_vars(SubHandlerEnds)
    /\ WF_vars(SubMainSteps)
    /\ \A w \in Workers : WF_vars(SdWorkerShutdown(w))
    /\ WF_vars(SdScanShutdown)
    /\ WF_vars(SdLiveShutdown)

InitScanner ==
    /\ now = 0
    /\ breakers = ConfiguredBreakers
    /\ db = [r \in Records |->
                [ver |-> 0, updated_at |-> 0, embedding |-> NoVec,
                 embedding_generated_at |-> NoTime]]
    /\ wcount = [r \in Records |-> [v \in 0..MaxUpdates |-> 0]]
    /\ chan = <<>>
    /\ scanner = ScannerStart
    /\ poller = [polls |-> 0, clear_counter |-> 0, processed_ids |-> {},
                 live |-> <<>>]
    /\ cache = EmptyCache
    /\ workers = [w \in Workers |-> IdleWorker]
    /\ MainInit
    /\ IdleCalls

NextScanner ==
    \/ \E result \in {"Ok", "Err"} : ScQuery(result)
    \/ ScErrorSleep
    \/ ScSend
    \/ ScSendClosed
    \/ ScShutdown
    \/ ScSignal
    \/ ScReceiverDropped
    \/ \E ok \in BOOLEAN : ScConsume(ok)

SpecScanner == InitScanner /\ [][NextScanner]_vars

====
